---- MODULE Spec2Model ----
(***************************************************************************)
(* A model of codon_us.c (CodonW): codon identification, codon and amino   *)
(* acid counting, the post-scan checks of codon_error, the genetic-code    *)
(* dependent degeneracy tables, and the first-call latches of the CAI,     *)
(* CBI and Fop calculators.                                                *)
(*                                                                         *)
(* Characters are one-character strings; a C string is a tuple of them     *)
(* and NUL stands for its terminating '\0'.  An array of counters (ncod,   *)
(* naa, din) is the bag of its indices: a[i]++ adds one copy of i, a[i] is  *)
(* CopiesIn(i, a), and the array of zeroes is EmptyBag.  A pointer into a   *)
(* table of the reference data (pm->pcu) is the index of the entry.         *)
(***************************************************************************)
EXTENDS Integers, Sequences, FiniteSets, Bags, TLC

(***************************************************************************)
(* Program constants                                                       *)
(***************************************************************************)
NumCodons == 64       \* ncod[], ca[], ds[] have 65 entries, 0..64
NumAA == 21           \* amino acid ids 1..21, da[] has 22 entries
StopAA == 11          \* the amino acid id of a stop
\* 2^32 = 3 * UIntThird + 1: the number of values i = 0, 3, 6, ... below the
\* wrapped unsigned bound 2^32 - 2 + seqlen (seqlen < 2) is UIntThird.
UIntThird == 1431655765
\* a weight w is held as the integer w * 100000: 1.0, 0.0001 and 0.01
WOne == 100000
ClampBelow == 10
ClampTo == 1000

NUL == "NUL"

CodonIds == 0..NumCodons
AAIds == 0..NumAA

(***************************************************************************)
(* Bounds of the model                                                     *)
(***************************************************************************)
MaxCodons == 2        \* loop iterations followed between two clean_up calls
MaxIntStop == 1       \* the run is followed until num_seq_int_stop reaches it
MaxStride == 3        \* strides of the generated translation tables
MaxOff == 1           \* values a file may have fewer or more than 64
NumCtx == 2           \* MENU_STRUCT contexts that share one REF_STRUCT
MaxPairs == 3         \* dinucleotides counted between two clean_up calls
MaxBases == 3         \* length of the sequences passed to dinuc_count

(***************************************************************************)
(* ident_codon                                                             *)
(***************************************************************************)
\* the characters with a case of their own in the switch of ident_codon
RecognisedBases == {"T", "t", "U", "u", "C", "c", "A", "a", "G", "g"}

\* the switch of ident_codon: the value stored back into codon[x]
BaseVal(c) ==
  CASE c \in {"T", "t", "U", "u"} -> 1
    [] c \in {"C", "c"} -> 2
    [] c \in {"A", "a"} -> 3
    [] c \in {"G", "g"} -> 4
    [] OTHER -> 0

\* a mutant of IcodeOf: second and third base weights swapped
IcodeOfSwapped(b1, b2, b3) ==
  IF b1 * b2 * b3 # 0 THEN (b1 - 1) * 16 + (b2 - 1) * 4 + b3 ELSE 0

\* lines 214-217: the id of a converted codon
IcodeOf(b1, b2, b3) ==
  IF b1 * b2 * b3 # 0 THEN (b1 - 1) * 16 + b2 + (b3 - 1) * 4 ELSE 0

\* ident_codon: a '\0' in any position returns 0 at once
ident_codon(codon) ==
  IF codon[1] = NUL \/ codon[2] = NUL \/ codon[3] = NUL
    THEN 0
    ELSE IcodeOf(BaseVal(codon[1]), BaseVal(codon[2]), BaseVal(codon[3]))

(***************************************************************************)
(* Genetic codes: ref->cu[code].ca, the 65-entry translation tables.       *)
(* Entry 0 (the untranslatable codon) translates to amino acid 0.          *)
(***************************************************************************)
UniversalCa ==
  << 1, 6, 10, 18,   1, 6, 10, 18,   2, 6, 11, 11,   2, 6, 11, 19,
     2, 7, 12, 20,   2, 7, 12, 20,   2, 7, 13, 20,   2, 7, 13, 20,
     3, 8, 14, 6,    3, 8, 14, 6,    3, 8, 15, 20,   4, 8, 15, 20,
     5, 9, 16, 21,   5, 9, 16, 21,   5, 9, 17, 21,   5, 9, 17, 21 >>

\* vertebrate mitochondrial: TGA = Trp, ATA = Met, AGA = AGG = stop
VertMitoCa ==
  << 1, 6, 10, 18,   1, 6, 10, 18,   2, 6, 11, 19,   2, 6, 11, 19,
     2, 7, 12, 20,   2, 7, 12, 20,   2, 7, 13, 20,   2, 7, 13, 20,
     3, 8, 14, 6,    3, 8, 14, 6,    4, 8, 15, 11,   4, 8, 15, 11,
     5, 9, 16, 21,   5, 9, 16, 21,   5, 9, 17, 21,   5, 9, 17, 21 >>

\* echinoderm mitochondrial: TGA = Trp, AAA = Asn, AGA = AGG = Ser, so that
\* Ile and Asn both have three codons and Ser has eight
EchinoMitoCa ==
  << 1, 6, 10, 18,   1, 6, 10, 18,   2, 6, 11, 19,   2, 6, 11, 19,
     2, 7, 12, 20,   2, 7, 12, 20,   2, 7, 13, 20,   2, 7, 13, 20,
     3, 8, 14, 6,    3, 8, 14, 6,    3, 8, 14, 6,    4, 8, 15, 6,
     5, 9, 16, 21,   5, 9, 16, 21,   5, 9, 17, 21,   5, 9, 17, 21 >>

CodeTable(t) == [x \in CodonIds |-> IF x = 0 THEN 0 ELSE t[x]]

\* further tables from codon ids 1..64 to amino acid ids 1..21: table k uses
\* the amino acids 1..m in strides of a, for m = 1..21 and a = 1..MaxStride
GeneratedCa(k) ==
  [x \in 1..NumCodons |->
     1 + (((1 + ((k - 1) \div NumAA)) * x) % (1 + ((k - 1) % NumAA)))]

\* ref->cu[]: two built-in codes, the generated tables, and a third built-in
\* code
cu ==
  << CodeTable(UniversalCa), CodeTable(VertMitoCa) >>
  \o [k \in 1..(NumAA * MaxStride) |-> CodeTable(GeneratedCa(k))]
  \o << CodeTable(EchinoMitoCa) >>

\* the codes sequences are counted under
Codes == {1, 2}

\* the index of the echinoderm mitochondrial code
EchinoCode == NumAA * MaxStride + 3

\* the codes the writers are run under
OutCodes == Codes \cup {EchinoCode}

AllCodes == DOMAIN cu

(***************************************************************************)
(* how_synon, how_synon_aa                                                 *)
(***************************************************************************)
\* a mutant of how_synon: the inner loop starts at the codon itself
how_synon_from_x(ca) ==
  [x \in CodonIds |->
     IF x = 0 THEN 0 ELSE Cardinality({i \in x..NumCodons : ca[x] = ca[i]})]

\* dds[x]: codons 1..64 that translate like codon x; dds[0] stays 0
how_synon(ca) ==
  [x \in CodonIds |->
     IF x = 0 THEN 0 ELSE Cardinality({i \in 1..NumCodons : ca[x] = ca[i]})]

\* dda[a]: codons 1..64 that translate to amino acid a
how_synon_aa(ca) ==
  [a \in AAIds |-> Cardinality({x \in 1..NumCodons : ca[x] = a})]

(***************************************************************************)
(* State                                                                   *)
(***************************************************************************)
VARIABLES
  pcu,               \* pm->pcu: the index in ref->cu of the active code
  dds, dda,          \* the static arrays of how_synon and how_synon_aa
  ncod, naa,         \* codon and amino acid counts
  codon_tot,         \* number of codons counted
  valid_stops,       \* sequences that ended in a stop codon
  num_seq_int_stop,  \* sequences reported with internal stops
  din, fram, dinuc_a, \* dinucleotide counts, frame phase, carried last base
  op,                \* the last operation: its name, arguments and outputs
  pre,               \* the counters as they were before the last operation
  crashed,           \* the process was ended by a read outside mapped memory
  ncalls,            \* sequences counted since clean_up
  nused,             \* loop iterations followed since clean_up
  caifile, cbifile, fopfile,  \* pm->caifile, pm->cbifile, pm->fopfile
  pcai, pfop,        \* pm->pcai and pm->pfop = pm->pcbi: indices in ref->cai, ref->fop
  ref_cai,           \* the entries of ref->cai[] written since the start
  user_cai, user_cbi, user_fop,          \* the static tables of the calculators
  cai_ttt, first_call_cbi, first_call,   \* the static first-call flags
  has_opt_info_cbi, has_opt_info_fop,    \* the static has_opt_info arrays
  exited,            \* my_exit was called
  menu,              \* the indices the caller asks for in this run
  headers,           \* the writers whose static header flag has been used
  ctx,               \* pcu, pfop and pcai of the further MENU_STRUCT contexts
  out                \* what the last calculator call wrote

countVars == << pcu, dds, dda, ncod, naa, codon_tot, valid_stops,
                num_seq_int_stop, din, fram, dinuc_a, op, pre, crashed,
                ncalls, nused >>

refVars == << caifile, cbifile, fopfile, pcai, pfop, ref_cai, user_cai,
              user_cbi, user_fop, cai_ttt, first_call_cbi, first_call,
              has_opt_info_cbi, has_opt_info_fop, exited, menu, headers,
              ctx, out >>

vars == << countVars, refVars >>

Counters == [ncod |-> ncod, naa |-> naa, codon_tot |-> codon_tot,
             valid_stops |-> valid_stops, num_seq_int_stop |-> num_seq_int_stop]

\* a[i]++
Incr(a, i) == a (+) SetToBag({i})

RECURSIVE SumSet(_, _)
\* the sum of a[i] over the indices i of S
SumSet(a, S) ==
  IF S = {} THEN 0
  ELSE LET x == CHOOSE y \in S : TRUE IN CopiesIn(x, a) + SumSet(a, S \ {x})

\* a[lo] + ... + a[hi]
SumRange(a, lo, hi) == SumSet(a, {i \in BagToSet(a) : lo <= i /\ i <= hi})

\* pm->pcu->ca
ca_of(code) == cu[code]

(***************************************************************************)
(* codon_usage_tot                                                         *)
(***************************************************************************)
\* strncpy(codon, seq + i, 3) for i <= strlen(seq): at most 3 characters are
\* copied and the rest of the 3 is filled with '\0'
Strncpy3(s, i) == [k \in 1..3 |-> IF i + k <= Len(s) THEN s[i + k] ELSE NUL]

\* a mutant of CountCodon: an untranslatable codon is not counted at all
CountCodonSkipZero(cs, icode, ca) ==
  IF icode = 0 THEN [cs EXCEPT !.icode = 0]
  ELSE [ncod |-> Incr(cs.ncod, icode),
        naa |-> Incr(cs.naa, ca[icode]),
        codon_tot |-> cs.codon_tot + 1,
        icode |-> icode]

\* a mutant of CountCodon: the amino acid of an untranslatable codon is
\* counted with amino acid 1
CountCodonZeroAsOne(cs, icode, ca) ==
  [ncod |-> Incr(cs.ncod, icode),
   naa |-> Incr(cs.naa, IF icode = 0 THEN 1 ELSE ca[icode]),
   codon_tot |-> cs.codon_tot + 1,
   icode |-> icode]

\* lines 157-160, the body of the loop once the codon is identified
CountCodon(cs, icode, ca) ==
  [ncod |-> Incr(cs.ncod, icode),
   naa |-> Incr(cs.naa, ca[icode]),
   codon_tot |-> cs.codon_tot + 1,
   icode |-> icode]

\* seqlen - 2 in unsigned int arithmetic wraps for seqlen < 2
LoopBoundWraps(seqlen) == seqlen < 2

\* a mutant of Iterations: the loop bound is seqlen - 3
IterationsShort(seqlen) ==
  IF LoopBoundWraps(seqlen) THEN UIntThird + (seqlen + 1) \div 3
  ELSE (seqlen - 1) \div 3

\* the number of values i = 0, 3, 6, ... with i < seqlen - 2 (unsigned)
Iterations(seqlen) ==
  IF LoopBoundWraps(seqlen) THEN UIntThird + (seqlen + 1) \div 3
  ELSE seqlen \div 3

\* the iterations whose strncpy starts inside the string (i <= seqlen)
IterationsInString(seqlen) ==
  IF LoopBoundWraps(seqlen) THEN 1 ELSE Iterations(seqlen)

RECURSIVE ScanLoop(_, _, _, _, _)
\* n iterations of the loop of line 154 from offset i
ScanLoop(s, i, n, ca, cs) ==
  IF n = 0 THEN cs
  ELSE ScanLoop(s, i + 3, n - 1, ca,
                CountCodon(cs, ident_codon(Strncpy3(s, i)), ca))

RECURSIVE ScanGarbage(_, _, _)
\* iterations past the terminator: the triplets found there have the ids g
ScanGarbage(g, ca, cs) ==
  IF g = << >> THEN cs
  ELSE ScanGarbage(Tail(g), ca, CountCodon(cs, Head(g), ca))

\* a mutant of PartialCodon: the id of the last complete codon is kept
PartialCodonKeepIcode(seqlen, cs) ==
  IF seqlen % 3 # 0
    THEN [cs EXCEPT !.ncod = Incr(@, 0)]
    ELSE cs

\* lines 163-167
PartialCodon(seqlen, cs) ==
  IF seqlen % 3 # 0
    THEN [cs EXCEPT !.icode = 0, !.ncod = Incr(@, 0)]
    ELSE cs

\* lines 169-170, and the return of icode
ValidStop(ca, cs, vs) ==
  [ncod |-> cs.ncod, naa |-> cs.naa, codon_tot |-> cs.codon_tot,
   valid_stops |-> IF ca[cs.icode] = StopAA THEN vs + 1 ELSE vs,
   icode |-> cs.icode]

\* codon_usage_tot(seq, ...) when every read stays in mapped memory; g are the
\* ids of the triplets read past the terminator (empty unless the bound wraps)
codon_usage_tot(s, g, cs0, vs, ca) ==
  ValidStop(ca,
    PartialCodon(Len(s),
      ScanGarbage(g, ca,
        ScanLoop(s, 0, IterationsInString(Len(s)), ca,
                 [ncod |-> cs0.ncod, naa |-> cs0.naa,
                  codon_tot |-> cs0.codon_tot, icode |-> 0]))),
    vs)

(***************************************************************************)
(* codon_error                                                             *)
(***************************************************************************)
\* lines 237-242: ns, the number of stop codons counted
CountStops(nc, ca) ==
  SumSet(nc, {i \in BagToSet(nc) : 1 <= i /\ i <= NumCodons /\ ca[i] = StopAA})

\* lines 237-239 and 328: loc_cod_tot, the value codon_error returns
LocCodTot(nc) == SumRange(nc, 1, NumCodons)

\* line 235: the start codon test is switched off
valid_start == TRUE

\* a mutant of InternalStops: the terminal stops are not taken off
InternalStopsAll(nc, ca, vs) == CountStops(nc, ca)

\* line 253
InternalStops(nc, ca, vs) == CountStops(nc, ca) - vs

\* case 1, lines 252-275: the messages written to pm->my_err
ErrorLevel1Msgs(nsi, warn, totals) ==
  (IF ~valid_start /\ warn THEN {"no_start_codon"} ELSE {})
  \cup (IF nsi # 0 /\ warn
          THEN (IF totals /\ warn THEN {"some_internal_stops"}
                ELSE {"internal_stops"})
          ELSE {})

\* line 273: num_seq_int_stop++ sits inside if (ns && pm->warn)
ErrorLevel1Count(nsi, warn, n) == IF nsi # 0 /\ warn THEN n + 1 ELSE n

\* a mutant of ErrorLevel2Msgs: the partial codon test asks for a final stop
ErrorLevel2MsgsStop(nc, ca, x, warn, totals) ==
  IF CopiesIn(0, nc) = 1 /\ ca[x] = StopAA /\ warn
    THEN {"last_codon_partial"}
    ELSE (IF CopiesIn(0, nc) # 0 /\ warn
            THEN (IF totals THEN {"some_non_translatable"}
                  ELSE {"non_translatable"})
            ELSE {})
         \cup (IF ca[x] # StopAA /\ warn /\ ~totals
                 THEN {"no_stop_codon"} ELSE {})

\* case 2, lines 276-308
ErrorLevel2Msgs(nc, ca, x, warn, totals) ==
  IF CopiesIn(0, nc) = 1 /\ ca[x] # StopAA /\ warn
    THEN {"last_codon_partial"}
    ELSE (IF CopiesIn(0, nc) # 0 /\ warn
            THEN (IF totals THEN {"some_non_translatable"}
                  ELSE {"non_translatable"})
            ELSE {})
         \cup (IF ca[x] # StopAA /\ warn /\ ~totals
                 THEN {"no_stop_codon"} ELSE {})

\* codon_error(x, y, ttitle, error_level, pm) for the levels 1, 2 and 4
ErrorSwitch(x, level, warn, totals, nc, ca, n, stops, nsi) ==
  [ret |-> LocCodTot(nc),
   ns |-> IF level = 1 THEN nsi ELSE stops,
   msgs |-> CASE level = 1 -> ErrorLevel1Msgs(nsi, warn, totals)
              [] level = 2 -> ErrorLevel2Msgs(nc, ca, x, warn, totals)
              [] OTHER -> {},
   num_seq_int_stop |-> IF level = 1 THEN ErrorLevel1Count(nsi, warn, n)
                        ELSE n]

codon_error(x, level, warn, totals, nc, ca, vs, n) ==
  ErrorSwitch(x, level, warn, totals, nc, ca, n, CountStops(nc, ca),
              InternalStops(nc, ca, vs))

(***************************************************************************)
(* Inputs                                                                  *)
(***************************************************************************)
Triplets == { <<"T", "A", "A">>, <<"T", "G", "A">>, <<"A", "T", "G">>,
              <<"A", "N", "T">> }

Tails == { << >>, <<"A">>, <<"T", "A">> }

RECURSIVE TripletSeqs(_)
TripletSeqs(n) ==
  IF n = 0 THEN { << >> }
  ELSE {t \o s : t \in Triplets, s \in TripletSeqs(n - 1)}

\* the sequences of at most k complete triplets and a tail of 0..2 characters
InputSeqs(k) ==
  {s \o t : s \in UNION {TripletSeqs(n) : n \in 0..k}, t \in Tails}

\* the two sequences of the documented scenarios
SeqMetAlaStop == <<"A", "T", "G", "G", "C", "T", "T", "A", "A">>
SeqInternalStop ==
  <<"A", "T", "G", "T", "A", "G", "G", "C", "T", "T", "A", "A">>
Scenarios == {SeqMetAlaStop, SeqInternalStop}

\* the sequences the calculators are run on: GCT GCC CTG is Ala Ala Leu
SeqAlaAlaLeu == <<"G", "C", "T", "G", "C", "C", "C", "T", "G">>
RefSeqs == {SeqMetAlaStop, SeqAlaAlaLeu}

\* the sequences the writers are run on
SeqMet == <<"A", "T", "G">>
SeqUntranslatable == <<"A", "T", "G", "A", "N", "T", "G", "C", "T">>
\* Met Phe Ile Ala Leu: one codon of every fold class of the universal code
SeqOnePerClass == <<"A", "T", "G", "T", "T", "T", "A", "T", "T", "G", "C", "T",
                    "C", "T", "G">>
\* Phe Ile Ala Leu, each twice with the same codon
SeqBiased == <<"T", "T", "T", "T", "T", "T", "A", "T", "T", "A", "T", "T",
               "G", "C", "T", "G", "C", "T", "C", "T", "G", "C", "T", "G">>
\* as SeqBiased with a second codon of Phe
SeqLessBiased == <<"T", "T", "C">> \o SeqBiased
\* Phe TTT TTT TTC, Ala GCT GCT GCC GCA, Leu CTG CTG CTT, no Ile
SeqSpread == <<"T", "T", "T", "T", "T", "T", "T", "T", "C",
               "G", "C", "T", "G", "C", "T", "G", "C", "C", "G", "C", "A",
               "C", "T", "G", "C", "T", "G", "C", "T", "T">>
\* as SeqSpread with Ser TCT TCT
SeqSpreadSer == SeqSpread \o <<"T", "C", "T", "T", "C", "T">>
\* Phe TTC TTT TTT, Ala GCT GCT, Leu CTG CTG, no Ile
SeqNoIle == <<"T", "T", "C", "T", "T", "T", "T", "T", "T", "G", "C", "T",
              "G", "C", "T", "C", "T", "G", "C", "T", "G">>
OutSeqs == {SeqMet, SeqMetAlaStop, SeqUntranslatable, SeqOnePerClass,
            SeqBiased, SeqLessBiased, SeqSpread, SeqSpreadSer, SeqNoIle}

Inputs == InputSeqs(MaxCodons) \cup Scenarios

\* ids of triplets that may be found past the terminator of a string
GarbageIds == {0, 11}

RECURSIVE IdRuns(_)
IdRuns(n) ==
  IF n = 0 THEN { << >> }
  ELSE {<<i>> \o r : i \in GarbageIds, r \in IdRuns(n - 1)}

\* The iterations past the terminator read whatever memory holds; the model
\* follows the first few of them.
GarbageRuns == UNION {IdRuns(n) : n \in 1..MaxCodons}

GarbageFor(s) == IF LoopBoundWraps(Len(s)) THEN GarbageRuns ELSE { << >> }

\* the loop iterations of a call that the model follows
Cost(s, g) ==
  IF LoopBoundWraps(Len(s)) THEN (IF g = << >> THEN 1 ELSE Len(g))
  ELSE IF Len(s) < 3 THEN 1 ELSE Len(s) \div 3

(***************************************************************************)
(* Reference tables and their files                                        *)
(***************************************************************************)
\* an array of numbers that start as 0: the entries that are not 0
At(t, x) == IF x \in DOMAIN t THEN t[x] ELSE 0

\* t[x] = v
Store(t, x, v) ==
  IF v = 0 THEN [i \in DOMAIN t \ {x} |-> t[i]]
  ELSE [i \in DOMAIN t \cup {x} |-> IF i = x THEN v ELSE t[i]]

Zeros == << >>

\* ref->cai[k].cai_val and ref->fop[k].fop_cod
BuiltinCai(k) == [x \in 1..NumCodons |-> ((x * (6 + k)) % 11) * (WOne \div 10)]
BuiltinFop(k) == [x \in 1..NumCodons |-> 1 + ((x + k) % 3)]
Species == {1, 2}

\* ref->cai[k].cai_val[x] as it is now
RefCai(k) ==
  [x \in 1..NumCodons |->
     IF x \in DOMAIN ref_cai[k] THEN ref_cai[k][x] ELSE BuiltinCai(k)[x]]

\* pm->caifile, pm->cbifile or pm->fopfile is NULL
NoFile == [null |-> TRUE]

\* the float fscanf stores for the text "nan": every comparison with it is
\* false
NaN == 0 - 1000000
IsNaN(f) == f = NaN

\* the numbers of a CAI file: n numbers of a pattern, the one at pos being val
CaiPattern(p, i) == IF p = 1 THEN WOne ELSE ((i * 3) % 11) * (WOne \div 10)
CaiTokens(f) ==
  [i \in 1..f.n |-> IF i = f.pos THEN f.val ELSE CaiPattern(f.pat, i)]

CaiFiles ==
  {[n |-> NumCodons, pat |-> 1, pos |-> 0, val |-> 0]}
  \cup {[n |-> n, pat |-> 2, pos |-> 0, val |-> 0] :
          n \in (NumCodons - MaxOff)..(NumCodons + MaxOff)}
  \cup {[n |-> NumCodons, pat |-> 2, pos |-> pv[1], val |-> pv[2]] :
          pv \in {<<5, 0 - 1>>, <<NumCodons, WOne + 1>>, <<50, 5>>,
                  <<54, NaN>>}}

\* the characters of a Fop or CBI file: n characters of a pattern, the one at
\* pos being ch
FopPattern(p, i) ==
  IF p = 1 THEN <<"1", "2", "3">>[1 + (i % 3)]
  ELSE IF p = 2 THEN (IF i % 2 = 0 THEN "3" ELSE "2")
  ELSE IF ((i - 1) \div 4) % 4 = 0 THEN "1" ELSE "3"
FopChars(f) ==
  [i \in 1..f.n |-> IF i = f.pos THEN f.ch ELSE FopPattern(f.pat, i)]

FopFiles ==
  {[n |-> NumCodons, pat |-> 2, pos |-> 0, ch |-> " "],
   [n |-> NumCodons, pat |-> 3, pos |-> 0, ch |-> " "],
   [n |-> NumCodons + 3 + MaxOff, pat |-> 1, pos |-> 0, ch |-> " "],
   [n |-> NumCodons, pat |-> 1, pos |-> 50, ch |-> "0"],
   [n |-> NumCodons, pat |-> 1, pos |-> 45, ch |-> "0"]}
  \cup {[n |-> n, pat |-> 1, pos |-> 0, ch |-> " "] :
          n \in (NumCodons - MaxOff)..(NumCodons + MaxOff)}
  \cup {[n |-> NumCodons + 1, pat |-> 1, pos |-> pc[1], ch |-> pc[2]] :
          pc \in {<<5, "4">>, <<7, " ">>}}

(***************************************************************************)
(* cai_out                                                                 *)
(***************************************************************************)
\* codons that are neither stops nor the only codon of their amino acid
Eligible(ca, ds) == {x \in 1..NumCodons : ca[x] # StopAA /\ ds[x] # 1}

\* ftemp < 0 || ftemp > 1.0
CaiOutOfRange(ftemp) == ~IsNaN(ftemp) /\ (ftemp < 0 \/ ftemp > WOne)

\* x != 65
CaiCountWrong(x) == x # NumCodons + 1

\* arr[1..k] = vals[1..k], the other entries of arr as they were
StoreRun(arr, vals, k) ==
  [x \in (DOMAIN arr \ (1..k)) \cup {i \in 1..k : vals[i] # 0} |->
     IF x \in 1..k THEN vals[x] ELSE arr[x]]

\* while (fscanf(pm->caifile, "%f ", &ftemp) != EOF): lines 624-633. The
\* numbers before the first one out of range are stored from cai_val[1] on;
\* x ends as the index after the last one stored.
CaiReadLoop(tokens, cai_val) ==
  LET bad == {i \in 1..Len(tokens) : CaiOutOfRange(tokens[i])}
      k == IF bad = {} THEN Len(tokens)
           ELSE (CHOOSE i \in bad : \A j \in bad : i <= j) - 1
  IN [x |-> k + 1, cai_val |-> StoreRun(cai_val, tokens, k), exit |-> bad # {}]

\* lines 619-640: the table read from the file, and whether my_exit was called
CaiLoad(tokens, cai_val) ==
  LET t == CaiReadLoop(tokens, Store(cai_val, 0, 0))
  IN IF t.exit THEN t ELSE [t EXCEPT !.exit = CaiCountWrong(t.x)]

\* a mutant of CaiClamped: the low weights are used as they are
CaiNotClamped(tbl, E) == tbl

\* lines 655-656: the table after the loop, eligible weights below 0.0001
\* replaced by 0.01
CaiClamped(tbl, E) ==
  LET low == {x \in E : ~IsNaN(At(tbl, x)) /\ At(tbl, x) < ClampBelow}
  IN [x \in DOMAIN tbl \cup low |-> IF x \in low THEN ClampTo ELSE tbl[x]]

\* lines 651-667: totaa and, for each weight w, the sum of nncod[x] over the
\* eligible codons with that weight; sigma = exp(sum n * ln(w) / totaa), or 0
\* if totaa is 0. A NaN weight of an eligible codon makes the sum NaN, whatever
\* the count of the codon (0 * NaN is NaN).
CaiValue(nncod, tbl, E) ==
  LET counted == {x \in E : CopiesIn(x, nncod) > 0}
      ws == {At(tbl, x) : x \in counted}
      totaa == SumSet(nncod, counted)
  IN [totaa |-> totaa,
      terms |-> [w \in ws |->
                   SumSet(nncod, {x \in counted : At(tbl, x) = w})],
      nan |-> totaa # 0 /\ \E x \in E : IsNaN(At(tbl, x))]

(***************************************************************************)
(* cbi_out and fop_out                                                     *)
(***************************************************************************)
\* isdigit(c) && atoi(str) >= 0 && atoi(str) <= 3
FopDigits == {"0", "1", "2", "3"}
DigitVal(c) == CASE c = "0" -> 0 [] c = "1" -> 1 [] c = "2" -> 2 [] c = "3" -> 3

IsFopDigit(c) == c \in FopDigits

\* while ((c = fgetc(file)) != EOF && x <= 66): lines 724-732 and 857-865.
\* The accepted digits are stored from fop_cod[1] on, 66 of them at most.
FopReadLoop(chars, fop_cod) ==
  LET digits == SelectSeq(chars, IsFopDigit)
      k == IF Len(digits) > NumCodons + 2 THEN NumCodons + 2 ELSE Len(digits)
      vals == [i \in 1..k |-> DigitVal(digits[i])]
  IN [x |-> k + 1, fop_cod |-> StoreRun(fop_cod, vals, k)]

\* lines 721-740 and 854-873: the table read from the file, and whether
\* my_exit was called
FopLoad(chars, fop_cod) ==
  LET t == FopReadLoop(chars, Store(fop_cod, 0, 0))
  IN [x |-> t.x, fop_cod |-> t.fop_cod, exit |-> t.x # NumCodons + 1]

factor_in_rare == FALSE

\* lines 749-758 and 881-906: the number of optimal codons of each amino acid
HasOptInfo(tbl, ca, ds) ==
  LET E == Eligible(ca, ds)
      n(a) == Cardinality({x \in E : ca[x] = a /\ At(tbl, x) = 3})
              + (IF factor_in_rare
                   THEN Cardinality({x \in E : ca[x] = a /\ At(tbl, x) = 1})
                   ELSE 0)
  IN [a \in {b \in 1..NumAA : n(b) > 0} |-> n(a)]

\* the codons the loops of lines 763-790 and 910-939 do not skip
Informed(hoi, ca) == {x \in 1..NumCodons : At(hoi, ca[x]) # 0}

\* the default case of the switch is reached
IllegalValue(tbl, hoi, ca) ==
  \E x \in Informed(hoi, ca) : At(tbl, x) \notin {1, 2, 3}

\* 12 is a multiple of the sizes 2, 3, 4 and 6 of the amino acid families
ExpScale == 12

\* a mutant of ExpTerm: the count of the amino acid is not divided by da
ExpTermWhole(nnaa, da, a) == CopiesIn(a, nnaa) * ExpScale

\* line 772: nnaa[ca[x]] / da[ca[x]], in twelfths
ExpTerm(nnaa, da, a) == (CopiesIn(a, nnaa) * ExpScale) \div da[a]

\* a mutant of CbiValue: nnaa / da is added once for every amino acid that
\* has an optimal codon, not once for every optimal codon
CbiValueOncePerFamily(nncod, nnaa, tbl, hoi, ca, da) ==
  LET I == Informed(hoi, ca)
      O == {x \in I : At(tbl, x) = 3}
      opt == SumSet(nncod, O \cap BagToSet(nncod))
      tot_cod == SumSet(nncod, I \cap BagToSet(nncod))
      F == [a \in {ca[y] : y \in O} \cap BagToSet(nnaa) |->
              ExpTerm(nnaa, da, a)]
      exp_cod == SumSet(F, DOMAIN F)
  IN [opt |-> opt, tot_cod |-> tot_cod, exp_cod |-> exp_cod,
      num |-> IF tot_cod * ExpScale # exp_cod
                THEN opt * ExpScale - exp_cod ELSE 0,
      den |-> IF tot_cod * ExpScale # exp_cod
                THEN tot_cod * ExpScale - exp_cod ELSE 1]

\* lines 763-797: opt, tot_cod, and exp_cod as a number of twelfths;
\* fcbi = (opt - exp_cod) / (tot_cod - exp_cod), or 0 if the divisor is 0
CbiValue(nncod, nnaa, tbl, hoi, ca, da) ==
  LET I == Informed(hoi, ca)
      O == {x \in I : At(tbl, x) = 3}
      opt == SumSet(nncod, O \cap BagToSet(nncod))
      tot_cod == SumSet(nncod, I \cap BagToSet(nncod))
      F == [x \in {y \in O : CopiesIn(ca[y], nnaa) > 0} |->
              ExpTerm(nnaa, da, ca[x])]
      exp_cod == SumSet(F, DOMAIN F)
  IN [opt |-> opt, tot_cod |-> tot_cod, exp_cod |-> exp_cod,
      num |-> IF tot_cod * ExpScale # exp_cod
                THEN opt * ExpScale - exp_cod ELSE 0,
      den |-> IF tot_cod * ExpScale # exp_cod
                THEN tot_cod * ExpScale - exp_cod ELSE 1]

\* lines 910-949: opt, std, nonopt; ffop = num / den
FopValue(nncod, tbl, hoi, ca) ==
  LET I == Informed(hoi, ca) \cap BagToSet(nncod)
      opt == SumSet(nncod, {x \in I : At(tbl, x) = 3})
      std == SumSet(nncod, {x \in I : At(tbl, x) = 2})
      nonopt == SumSet(nncod, {x \in I : At(tbl, x) = 1})
  IN [opt |-> opt, std |-> std, nonopt |-> nonopt,
      num |-> IF opt + nonopt + std = 0 THEN 0
              ELSE IF factor_in_rare THEN opt - nonopt ELSE opt,
      den |-> IF opt + nonopt + std = 0 THEN 1 ELSE opt + nonopt + std]

(***************************************************************************)
(* Operations                                                              *)
(***************************************************************************)
NoOp(name) ==
  [name |-> name, seq |-> << >>, last_aa |-> 0, level |-> 0, warn |-> FALSE,
   totals |-> FALSE, ns |-> 0, msgs |-> {}, ret |-> 0]

\* what initialize_point leaves alone of the calculators' state
refStatics == << caifile, cbifile, fopfile, ref_cai, user_cai, user_cbi,
                 user_fop, cai_ttt, first_call_cbi, first_call,
                 has_opt_info_cbi, has_opt_info_fop, exited, menu, headers,
                 ctx, out >>

\* initialize_point(code, fop_species, cai_species, pm, ref): lines 92-97
InitializePoint(code, fop_species, cai_species) ==
  /\ ~crashed
  /\ ~exited
  /\ nused = 0
  /\ num_seq_int_stop < MaxIntStop
  /\ pcai' = cai_species
  /\ pfop' = fop_species
  /\ UNCHANGED refStatics
  /\ pcu' = code
  /\ dds' = how_synon(ca_of(code))
  /\ dda' = how_synon_aa(ca_of(code))
  /\ op' = [NoOp("initialize_point") EXCEPT !.last_aa = op.last_aa]
  /\ UNCHANGED << ncod, naa, codon_tot, valid_stops, num_seq_int_stop, din,
                  fram, dinuc_a, pre, crashed, ncalls, nused >>

InBudget(s, g) ==
  /\ num_seq_int_stop < MaxIntStop
  /\ \/ nused + Cost(s, g) <= MaxCodons
     \/ nused = 0 /\ s \in Scenarios \cup RefSeqs \cup OutSeqs

\* codon_usage_tot(seq, &codon_tot, ncod, naa, pm) returning to its caller
CodonUsageTot(s, g) ==
  /\ ~crashed
  /\ ~exited
  /\ UNCHANGED refVars
  /\ InBudget(s, g)
  /\ \E r \in {codon_usage_tot(s, g, Counters, valid_stops, ca_of(pcu))} :
        /\ ncod' = r.ncod
        /\ naa' = r.naa
        /\ codon_tot' = r.codon_tot
        /\ valid_stops' = r.valid_stops
        /\ op' = [NoOp("codon_usage_tot") EXCEPT !.seq = s, !.last_aa = r.icode,
                                                 !.ret = r.icode]
  /\ pre' = Counters
  /\ ncalls' = ncalls + 1
  /\ nused' = nused + Cost(s, g)
  /\ UNCHANGED << pcu, dds, dda, num_seq_int_stop, din, fram, dinuc_a, crashed >>

\* codon_usage_tot on a string shorter than 2: the loop bound wraps and a read
\* past the terminator leaves mapped memory
CodonUsageTotCrash(s) ==
  /\ ~crashed
  /\ ~exited
  /\ UNCHANGED refVars
  /\ InBudget(s, << >>)
  /\ LoopBoundWraps(Len(s))
  /\ \E c \in {ScanLoop(s, 0, IterationsInString(Len(s)), ca_of(pcu),
                        [ncod |-> ncod, naa |-> naa, codon_tot |-> codon_tot,
                         icode |-> 0])} :
        /\ ncod' = c.ncod
        /\ naa' = c.naa
        /\ codon_tot' = c.codon_tot
  /\ crashed' = TRUE
  /\ op' = [NoOp("codon_usage_tot") EXCEPT !.seq = s]
  /\ pre' = Counters
  /\ ncalls' = ncalls + 1
  /\ nused' = nused + 1
  /\ UNCHANGED << pcu, dds, dda, valid_stops, num_seq_int_stop, din, fram,
                  dinuc_a >>

\* codon_error(last_aa, valid_stops, title, level, pm) after a sequence is counted
CodonError(level, warn, totals) ==
  /\ ~crashed
  /\ ~exited
  /\ UNCHANGED refVars
  /\ num_seq_int_stop < MaxIntStop
  /\ op.name = "codon_usage_tot"
  /\ \E r \in {codon_error(op.last_aa, level, warn, totals, ncod,
                           ca_of(pcu), valid_stops, num_seq_int_stop)} :
        /\ num_seq_int_stop' = r.num_seq_int_stop
        /\ op' = [name |-> "codon_error", seq |-> op.seq,
                  last_aa |-> op.last_aa, level |-> level, warn |-> warn,
                  totals |-> totals, ns |-> r.ns, msgs |-> r.msgs,
                  ret |-> r.ret]
  /\ pre' = Counters
  /\ UNCHANGED << pcu, dds, dda, ncod, naa, codon_tot, valid_stops, din, fram,
                  dinuc_a, crashed, ncalls, nused >>

\* a mutant of CleanUp: the frame and the carried base are left as they are
CleanUpKeepsFrame ==
  /\ ~crashed
  /\ ~exited
  /\ UNCHANGED refVars
  /\ num_seq_int_stop < MaxIntStop
  /\ ncod' = EmptyBag
  /\ naa' = EmptyBag
  /\ din' = EmptyBag
  /\ valid_stops' = 0
  /\ codon_tot' = 0
  /\ op' = NoOp("clean_up")
  /\ pre' = Counters
  /\ ncalls' = 0
  /\ nused' = 0
  /\ UNCHANGED << pcu, dds, dda, num_seq_int_stop, crashed, fram, dinuc_a >>

\* clean_up(ncod, naa): lines 564-576
CleanUp ==
  /\ ~crashed
  /\ ~exited
  /\ UNCHANGED refVars
  /\ num_seq_int_stop < MaxIntStop
  /\ ncod' = EmptyBag
  /\ naa' = EmptyBag
  /\ din' = EmptyBag
  /\ dinuc_a' = 0
  /\ valid_stops' = 0
  /\ codon_tot' = 0
  /\ fram' = 0
  /\ op' = NoOp("clean_up")
  /\ pre' = Counters
  /\ ncalls' = 0
  /\ nused' = 0
  /\ UNCHANGED << pcu, dds, dda, num_seq_int_stop, crashed >>

Cleared ==
  /\ ncod = EmptyBag
  /\ naa = EmptyBag
  /\ din = EmptyBag
  /\ dinuc_a = 0
  /\ fram = 0
  /\ codon_tot = 0
  /\ valid_stops = 0

\* the counters of a process that has called initialize_point(code, ...)
CountStart(code) ==
  /\ pcu = code
  /\ dds = how_synon(ca_of(code))
  /\ dda = how_synon_aa(ca_of(code))
  /\ Cleared
  /\ num_seq_int_stop = 0
  /\ op = NoOp("start")
  /\ pre = Counters
  /\ crashed = FALSE
  /\ ncalls = 0
  /\ nused = 0

NoOut == [name |-> "none", table |-> "none", val |-> << >>]

\* a MENU_STRUCT on which initialize_point was not called yet
NoCtx == [pcu |-> 0, pfop |-> 0, pcai |-> 0]

\* the calculators' state of a process given the three files
RefStart(cf, bf, ff, indices) ==
  /\ menu = indices
  /\ caifile = cf
  /\ cbifile = bf
  /\ fopfile = ff
  /\ pcai = 1
  /\ pfop = 1
  /\ ref_cai = [k \in Species |-> Zeros]
  /\ user_cai = Zeros
  /\ user_cbi = Zeros
  /\ user_fop = Zeros
  /\ cai_ttt = FALSE
  /\ first_call_cbi = TRUE
  /\ first_call = TRUE
  /\ has_opt_info_cbi = Zeros
  /\ has_opt_info_fop = Zeros
  /\ exited = FALSE
  /\ headers = {}
  /\ ctx = [c \in 2..NumCtx |-> NoCtx]
  /\ out = NoOut

Init ==
  /\ \E code \in Codes : CountStart(code)
  /\ RefStart(NoFile, NoFile, NoFile, {})

Next ==
  \/ \E code \in Codes : InitializePoint(code, 1, 1)
  \/ \E s \in Inputs : \E g \in GarbageFor(s) : CodonUsageTot(s, g)
  \/ \E s \in InputSeqs(0) : CodonUsageTotCrash(s)
  \/ \E level \in {1, 2}, warn \in BOOLEAN, totals \in BOOLEAN :
       CodonError(level, warn, totals)
  \/ CodonError(4, FALSE, FALSE)
  \/ CleanUp

Spec == Init /\ [][Next]_vars

(***************************************************************************)
(* The degeneracy tables under every translation table                     *)
(***************************************************************************)
InitSynon ==
  /\ \E code \in AllCodes : CountStart(code)
  /\ RefStart(NoFile, NoFile, NoFile, {})

NextSynon == \E code \in AllCodes : InitializePoint(code, 1, 1)

SpecSynon == InitSynon /\ [][NextSynon]_vars

(***************************************************************************)
(* ident_codon on every triplet of characters                              *)
(***************************************************************************)
Symbols == RecognisedBases \cup {"N", NUL}

\* ident_codon(codon) on the 3 characters strncpy left in the buffer
IdentCodon(c) ==
  /\ UNCHANGED refVars
  /\ op' = [NoOp("ident_codon") EXCEPT !.seq = c, !.ret = ident_codon(c)]
  /\ UNCHANGED << pcu, dds, dda, ncod, naa, codon_tot, valid_stops,
                  num_seq_int_stop, din, fram, dinuc_a, pre, crashed, ncalls,
                  nused >>

NextIdent == \E c \in [1..3 -> Symbols] : IdentCodon(c)

InitIdent == CountStart(1) /\ RefStart(NoFile, NoFile, NoFile, {})

SpecIdent == InitIdent /\ [][NextIdent]_vars

(***************************************************************************)
(* The calculators that read a reference table                             *)
(***************************************************************************)
Exit == [NoOut EXCEPT !.name = "my_exit"]

\* cai_out(foutput, nncod, pm)
CaiOut ==
  /\ ~crashed
  /\ ~exited
  /\ "cai" \in menu
  /\ UNCHANGED << menu, headers, ctx >>
  /\ LET loading == ~cai_ttt /\ caifile # NoFile
         E == Eligible(ca_of(pcu), dds)
     IN \E load \in {IF loading THEN CaiLoad(CaiTokens(caifile), user_cai)
                      ELSE [x |-> 0, cai_val |-> user_cai, exit |-> FALSE]} :
          IF load.exit
            THEN /\ exited' = TRUE
                 /\ user_cai' = load.cai_val
                 /\ out' = Exit
                 /\ UNCHANGED << cai_ttt, ref_cai >>
            ELSE \E after \in {CaiClamped(IF loading THEN load.cai_val
                                           ELSE RefCai(pcai), E)} :
                   /\ cai_ttt' = TRUE
                   /\ user_cai' = IF loading THEN after ELSE user_cai
                   /\ ref_cai' =
                        IF loading THEN ref_cai
                        ELSE [ref_cai EXCEPT ![pcai] =
                                [x \in {y \in 1..NumCodons :
                                          after[y] # BuiltinCai(pcai)[y]} |->
                                   after[x]]]
                   /\ out' = [name |-> "cai_out",
                              table |-> IF loading THEN "user_cai" ELSE "ref_cai",
                              val |-> CaiValue(ncod, after, E)]
                   /\ UNCHANGED exited
  /\ op' = NoOp("cai_out")
  /\ UNCHANGED << caifile, cbifile, fopfile, pcai, pfop, user_cbi, user_fop,
                  first_call_cbi, first_call, has_opt_info_cbi,
                  has_opt_info_fop >>
  /\ UNCHANGED << pcu, dds, dda, ncod, naa, codon_tot, valid_stops,
                  num_seq_int_stop, din, fram, dinuc_a, pre, crashed, ncalls,
                  nused >>

\* cbi_out(foutput, nncod, nnaa, pm)
CbiOut ==
  /\ ~crashed
  /\ ~exited
  /\ "cbi" \in menu
  /\ UNCHANGED << menu, headers, ctx >>
  /\ LET loading == first_call_cbi /\ cbifile # NoFile
     IN \E load \in {IF loading THEN FopLoad(FopChars(cbifile), user_cbi)
                      ELSE [x |-> 0, fop_cod |-> user_cbi, exit |-> FALSE]} :
          /\ user_cbi' = load.fop_cod
          /\ IF load.exit
               THEN /\ exited' = TRUE
                    /\ out' = Exit
                    /\ UNCHANGED << first_call_cbi, has_opt_info_cbi >>
               ELSE \E tbl \in {IF loading THEN load.fop_cod
                                 ELSE BuiltinFop(pfop)} :
                    \E hoi \in {IF first_call_cbi
                                   THEN HasOptInfo(tbl, ca_of(pcu), dds)
                                   ELSE has_opt_info_cbi} :
                      /\ first_call_cbi' = FALSE
                      /\ has_opt_info_cbi' = hoi
                      /\ exited' = IllegalValue(tbl, hoi, ca_of(pcu))
                      /\ out' = IF IllegalValue(tbl, hoi, ca_of(pcu)) THEN Exit
                                ELSE [name |-> "cbi_out",
                                      table |-> IF loading THEN "user_cbi"
                                                ELSE "ref_fop",
                                      val |-> CbiValue(ncod, naa, tbl, hoi,
                                                       ca_of(pcu), dda)]
  /\ op' = NoOp("cbi_out")
  /\ UNCHANGED << caifile, cbifile, fopfile, pcai, pfop, ref_cai, user_cai,
                  user_fop, cai_ttt, first_call, has_opt_info_fop >>
  /\ UNCHANGED << pcu, dds, dda, ncod, naa, codon_tot, valid_stops,
                  num_seq_int_stop, din, fram, dinuc_a, pre, crashed, ncalls,
                  nused >>

\* fop_out(foutput, nncod, pm)
FopOut ==
  /\ ~crashed
  /\ ~exited
  /\ "fop" \in menu
  /\ UNCHANGED << menu, headers, ctx >>
  /\ LET loading == first_call /\ fopfile # NoFile
     IN \E load \in {IF loading THEN FopLoad(FopChars(fopfile), user_fop)
                      ELSE [x |-> 0, fop_cod |-> user_fop, exit |-> FALSE]} :
          /\ user_fop' = load.fop_cod
          /\ IF load.exit
               THEN /\ exited' = TRUE
                    /\ out' = Exit
                    /\ UNCHANGED << first_call, has_opt_info_fop >>
               ELSE \E tbl \in {IF loading THEN load.fop_cod
                                 ELSE BuiltinFop(pfop)} :
                    \E hoi \in {IF first_call
                                   THEN HasOptInfo(tbl, ca_of(pcu), dds)
                                   ELSE has_opt_info_fop} :
                      /\ first_call' = FALSE
                      /\ has_opt_info_fop' = hoi
                      /\ exited' = IllegalValue(tbl, hoi, ca_of(pcu))
                      /\ out' = IF IllegalValue(tbl, hoi, ca_of(pcu)) THEN Exit
                                ELSE [name |-> "fop_out",
                                      table |-> IF loading THEN "user_fop"
                                                ELSE "ref_fop",
                                      val |-> FopValue(ncod, tbl, hoi,
                                                       ca_of(pcu))]
  /\ op' = NoOp("fop_out")
  /\ UNCHANGED << caifile, cbifile, fopfile, pcai, pfop, ref_cai, user_cai,
                  user_cbi, cai_ttt, first_call_cbi, has_opt_info_cbi >>
  /\ UNCHANGED << pcu, dds, dda, ncod, naa, codon_tot, valid_stops,
                  num_seq_int_stop, din, fram, dinuc_a, pre, crashed, ncalls,
                  nused >>

\* the files and the indices of a run: one index with its file, or the three
\* indices with no file or with three files
RefSetups ==
  {<<NoFile, NoFile, NoFile, {"cai", "cbi", "fop"}>>}
  \cup {<<f, NoFile, NoFile, {"cai"}>> : f \in CaiFiles}
  \cup {<<NoFile, f, NoFile, {"cbi"}>> : f \in FopFiles}
  \cup {<<NoFile, NoFile, f, {"fop"}>> : f \in FopFiles}
  \cup {<<[n |-> NumCodons, pat |-> 2, pos |-> 0, val |-> 0],
          [n |-> NumCodons, pat |-> 1, pos |-> 0, ch |-> " "],
          [n |-> NumCodons, pat |-> 2, pos |-> 0, ch |-> " "],
          {"cai", "cbi", "fop"}>>}

InitRef ==
  /\ CountStart(1)
  /\ \E f \in RefSetups : RefStart(f[1], f[2], f[3], f[4])

NextRef ==
  \/ \E k \in Species : InitializePoint(pcu, k, k)
  \/ \E s \in RefSeqs : CodonUsageTot(s, << >>)
  \/ CleanUp
  \/ CaiOut
  \/ CbiOut
  \/ FopOut

SpecRef == InitRef /\ [][NextRef]_vars

(***************************************************************************)
(* The calculators and writers that read the counts alone                  *)
(***************************************************************************)
\* a quotient the code prints, kept exact: p / q
Ratio(p, q) == [num |-> p, den |-> q]

RAdd(p, q) == Ratio(p.num * q.den + q.num * p.den, p.den * q.den)

RECURSIVE RSum(_, _)
\* the sum of the quotients f[i] over the indices i of S
RSum(f, S) ==
  IF S = {} THEN Ratio(0, 1)
  ELSE LET i == CHOOSE j \in S : TRUE IN RAdd(f[i], RSum(f, S \ {i}))

\* the sum of a[x] over the indices x of S
SumOver(a, S) == SumSet(a, S \cap BagToSet(a))

RECURSIVE SumSq(_, _)
\* the sum of a[x] * a[x] over the indices x of S
SumSq(a, S) ==
  IF S = {} THEN 0
  ELSE LET x == CHOOSE y \in S : TRUE
       IN CopiesIn(x, a) * CopiesIn(x, a) + SumSq(a, S \ {x})

\* the loop variables x, y, z of id = (x - 1) * 16 + y + (z - 1) * 4:
\* the bases T = 1, C = 2, A = 3, G = 4 at the positions 1, 2, 3 of codon id
Base1(id) == ((id - 1) \div 16) + 1
Base2(id) == ((id - 1) % 4) + 1
Base3(id) == (((id - 1) \div 4) % 4) + 1

BaseC == 2
BaseG == 4

\* the fields of out.val that every writer fills
Written(report) == [written |-> TRUE, report |-> report]
NotWritten == [written |-> FALSE, report |-> << >>]

TooShortMsgs == {"too_short", "no_output_written"}

\* what a writer leaves alone
outFrame == << pcu, dds, dda, ncod, naa, valid_stops, num_seq_int_stop, din,
               fram, dinuc_a, crashed, ncalls, nused, caifile, cbifile,
               fopfile, pcai, pfop, ref_cai, user_cai, user_cbi, user_fop,
               cai_ttt, first_call_cbi, first_call, has_opt_info_cbi,
               has_opt_info_fop, exited, menu, ctx >>

\* codon_usage_out(fblkout, nncod, last_aa, vvalid_stops, ttitle, pm):
\* the total goes to the local ccodon_tot
CodonUsageOut ==
  /\ ~crashed
  /\ ~exited
  /\ \E r \in {codon_error(op.last_aa, 4, FALSE, FALSE, ncod, ca_of(pcu),
                           valid_stops, num_seq_int_stop)} :
       out' = [name |-> "codon_usage_out", table |-> "none",
               val |-> Written([nncod |-> ncod, Codons |-> r.ret])]
  /\ op' = [NoOp("codon_usage_out") EXCEPT !.last_aa = op.last_aa]
  /\ pre' = Counters
  /\ UNCHANGED << outFrame, codon_tot, headers >>

\* lines 396-400 and 1223: (nncod[x] / nnaa[ca[x]]) * ds[x]
Rscu(nncod, nnaa, ca, ds, x) ==
  Ratio(CopiesIn(x, nncod) * ds[x], CopiesIn(ca[x], nnaa))

\* rscu_usage_out(fblkout, nncod, nnaa, pm): the values that are not 0.000
RscuUsage(nncod, nnaa, ca, ds) ==
  [x \in {y \in 1..NumCodons : CopiesIn(ca[y], nnaa) # 0
                                 /\ CopiesIn(y, nncod) # 0} |->
     Rscu(nncod, nnaa, ca, ds, x)]

RscuUsageOut ==
  /\ ~crashed
  /\ ~exited
  /\ out' = [name |-> "rscu_usage_out", table |-> "none",
             val |-> Written(RscuUsage(ncod, naa, ca_of(pcu), dds))]
  /\ op' = [NoOp("rscu_usage_out") EXCEPT !.last_aa = op.last_aa]
  /\ pre' = Counters
  /\ UNCHANGED << outFrame, codon_tot, headers >>

\* lines 434-436, 1402-1404, 1437-1439: the amino acids counted, stop left out
AaTot(nnaa) == SumOver(nnaa, (1..NumAA) \ {StopAA})

\* raau_usage_out(fblkout, nnaa, pm): lines 440-446, the entries that are not 0
RaauUsage(nnaa) ==
  IF AaTot(nnaa) = 0 THEN << >>
  ELSE [x \in {y \in BagToSet(nnaa) : y # StopAA /\ y <= NumAA} |->
          Ratio(CopiesIn(x, nnaa), AaTot(nnaa))]

RaauUsageOut ==
  /\ ~crashed
  /\ ~exited
  /\ out' = [name |-> "raau_usage_out", table |-> "none",
             val |-> Written(RaauUsage(naa))]
  /\ headers' = headers \cup {"raau_usage_out"}
  /\ op' = [NoOp("raau_usage_out") EXCEPT !.last_aa = op.last_aa]
  /\ pre' = Counters
  /\ UNCHANGED << outFrame, codon_tot >>

\* aa_usage_out(fblkout, nnaa, pm)
AaUsageOut ==
  /\ ~crashed
  /\ ~exited
  /\ out' = [name |-> "aa_usage_out", table |-> "none", val |-> Written(naa)]
  /\ headers' = headers \cup {"aa_usage_out"}
  /\ op' = [NoOp("aa_usage_out") EXCEPT !.last_aa = op.last_aa]
  /\ pre' = Counters
  /\ UNCHANGED << outFrame, codon_tot >>

\* base_sil_us_out, lines 507-516: the synonymous codons that end in base b
BasesS(nncod, ca, ds, b) ==
  SumOver(nncod, {id \in 1..NumCodons :
                    ~(ds[id] = 1 \/ ca[id] = StopAA) /\ Base3(id) = b})

\* a mutant of Cb: without the done flags, nnaa[i] is added once for every
\* codon of amino acid i that ends in base b
CbPerCodon(nnaa, ca, da, b) ==
  SumSet([id \in {x \in 1..NumCodons : ~(ca[x] = StopAA \/ da[ca[x]] = 1)
                                         /\ Base3(x) = b} |->
            CopiesIn(ca[id], nnaa)],
         {x \in 1..NumCodons : ~(ca[x] = StopAA \/ da[ca[x]] = 1)
                                /\ Base3(x) = b})

\* lines 518-541: the amino acids that have a codon ending in base b
Cb(nnaa, ca, da, b) ==
  SumOver(nnaa, {i \in 1..NumAA :
                   ~(i = StopAA \/ da[i] = 1)
                   /\ \E id \in 1..NumCodons : ca[id] = i /\ Base3(id) = b})

\* lines 544-550
BaseSilUs(nncod, nnaa, ca, ds, da) ==
  [b \in 1..4 |-> IF Cb(nnaa, ca, da, b) > 0
                    THEN Ratio(BasesS(nncod, ca, ds, b), Cb(nnaa, ca, da, b))
                    ELSE Ratio(0, 1)]

\* base_sil_us_out(foutput, nncod, nnaa, pm)
BaseSilUsOut ==
  /\ ~crashed
  /\ ~exited
  /\ out' = [name |-> "base_sil_us_out", table |-> "none",
             val |-> Written(BaseSilUs(ncod, naa, ca_of(pcu), dds, dda))]
  /\ op' = [NoOp("base_sil_us_out") EXCEPT !.last_aa = op.last_aa]
  /\ pre' = Counters
  /\ UNCHANGED << outFrame, codon_tot, headers >>

\* enc_out, line 1012: bb > 0.0000001
EncThresholdInv == 10000000

\* lines 984-1010 of enc_out: bb, the homozygosity of amino acid i, which is
\* (nnaa[i] * s2 - 1) / (nnaa[i] - 1) with s2 the sum of (nncod[x] / nnaa[i])^2
Homozygosity(nncod, nnaa, ca, i) ==
  IF CopiesIn(i, nnaa) <= 1 THEN Ratio(0, 1)
  ELSE Ratio(SumSq(nncod, {x \in BagToSet(nncod) :
                             1 <= x /\ x <= NumCodons /\ ca[x] = i})
               - CopiesIn(i, nnaa),
             CopiesIn(i, nnaa) * (CopiesIn(i, nnaa) - 1))

\* the amino acids of the loop of line 984
EncAAs == (1..NumAA) \ {11}

\* the sizes of the arrays fold, numaa and totb of enc_out
EncFolds == 0..8

\* lines 984-1020: fold, numaa and totb
EncTables(nncod, nnaa, ca, da) ==
  LET bb == [i \in EncAAs |-> Homozygosity(nncod, nnaa, ca, i)]
      used == [z \in EncFolds |->
                 {i \in EncAAs : da[i] = z
                                   /\ bb[i].num * EncThresholdInv > bb[i].den}]
  IN [fold |-> [z \in EncFolds |-> Cardinality({i \in EncAAs : da[i] = z})],
      numaa |-> [z \in EncFolds |-> Cardinality(used[z])],
      totb |-> [z \in EncFolds |-> RSum(bb, used[z])]]

\* a mutant of Averb: the mean of the classes 2 and 4 is taken for any
\* number of amino acids with three codons
AverbAnyThreeFold(t, z) ==
  IF t.numaa[z] # 0 /\ t.totb[z].num > 0
    THEN Ratio(t.totb[z].num, t.totb[z].den * t.numaa[z])
  ELSE IF z = 3 /\ t.numaa[2] # 0 /\ t.numaa[4] # 0
    THEN Ratio(RAdd(Ratio(t.totb[2].num, t.totb[2].den * t.numaa[2]),
                    Ratio(t.totb[4].num, t.totb[4].den * t.numaa[4])).num,
               RAdd(Ratio(t.totb[2].num, t.totb[2].den * t.numaa[2]),
                    Ratio(t.totb[4].num, t.totb[4].den * t.numaa[4])).den * 2)
  ELSE Ratio(0, 1)

\* lines 1029-1033: averb of fold class z, or 0 where line 1034 is reached
Averb(t, z) ==
  IF t.numaa[z] # 0 /\ t.totb[z].num > 0
    THEN Ratio(t.totb[z].num, t.totb[z].den * t.numaa[z])
  ELSE IF z = 3 /\ t.numaa[2] # 0 /\ t.numaa[4] # 0 /\ t.fold[z] = 1
    THEN Ratio(RAdd(Ratio(t.totb[2].num, t.totb[2].den * t.numaa[2]),
                    Ratio(t.totb[4].num, t.totb[4].den * t.numaa[4])).num,
               RAdd(Ratio(t.totb[2].num, t.totb[2].den * t.numaa[2]),
                    Ratio(t.totb[4].num, t.totb[4].den * t.numaa[4])).den * 2)
  ELSE Ratio(0, 1)

\* lines 1024-1043: the fold classes at which the loop would stop
EncErrors(t) == {z \in 2..8 : t.fold[z] # 0 /\ Averb(t, z).num = 0}

\* lines 1022-1043: enc_tot when the loop runs to its end
EncTot(t) ==
  RAdd(Ratio(t.fold[1], 1),
       RSum([z \in 2..8 |-> Ratio(t.fold[z] * Averb(t, z).den, Averb(t, z).num)],
            {z \in 2..8 : t.fold[z] # 0}))

\* a mutant of EncReport: enc_tot is written whatever its size
EncReportAny(enc) == enc

\* lines 1047-1050
EncReport(enc) == IF enc.num <= 61 * enc.den THEN enc ELSE Ratio(61, 1)

\* enc_out's result: the field written, and the arguments of codon_error
EncValue(nncod, nnaa, ca, da) ==
  LET t == EncTables(nncod, nnaa, ca, da)
  IN IF EncErrors(t) # {}
       THEN LET z == CHOOSE y \in EncErrors(t) : \A w \in EncErrors(t) : y <= w
            IN [error_t |-> TRUE, z |-> z, numaa |-> t.numaa[z],
                enc |-> Ratio(0, 1)]
       ELSE [error_t |-> FALSE, z |-> 0, numaa |-> 0,
             enc |-> EncReport(EncTot(t))]

\* codon_error at level 3, lines 309-321
ErrorLevel3Msgs(warn) == IF warn THEN {"nc_not_calculated"} ELSE {}

\* enc_out(foutput, nncod, nnaa, pm)
EncOut(warn) ==
  /\ ~crashed
  /\ ~exited
  /\ \E v \in {EncValue(ncod, naa, ca_of(pcu), dda)} :
       /\ out' = [name |-> "enc_out", table |-> "none", val |-> Written(v)]
       /\ op' = [NoOp("enc_out") EXCEPT
                   !.last_aa = op.last_aa, !.warn = warn,
                   !.level = IF v.error_t THEN 3 ELSE 0,
                   !.msgs = IF v.error_t THEN ErrorLevel3Msgs(warn) ELSE {}]
  /\ pre' = Counters
  /\ UNCHANGED << outFrame, codon_tot, headers >>

\* gc_out, lines 1103-1126: the sums over the 64 codons of the global ncod
GcCounts(ca, ds) ==
  LET sense == {id \in BagToSet(ncod) :
                  1 <= id /\ id <= NumCodons /\ ca[id] # StopAA}
      synon == {id \in sense : ds[id] # 1}
  IN [totalaa |-> SumSet(ncod, sense),
      tot_s |-> SumSet(ncod, synon),
      base_1 |-> [b \in 1..4 |-> SumSet(ncod, {id \in sense : Base1(id) = b})],
      base_2 |-> [b \in 1..4 |-> SumSet(ncod, {id \in sense : Base2(id) = b})],
      base_3 |-> [b \in 1..4 |-> SumSet(ncod, {id \in sense : Base3(id) = b})],
      bases |-> [b \in 1..4 |-> SumSet(ncod, {id \in synon : Base3(id) = b})]]

\* base_tot[b]
BaseTot(g, b) == g.base_1[b] + g.base_2[b] + g.base_3[b]

\* line 1128
GcTooShort(g) == g.tot_s = 0 \/ g.totalaa = 0

\* lines 1134-1184
GcReport(which, g) ==
  CASE which = 1 ->
         [Len_aa |-> g.totalaa, Len_sym |-> g.tot_s,
          GC |-> Ratio(BaseTot(g, BaseC) + BaseTot(g, BaseG), g.totalaa * 3),
          GC3s |-> Ratio(g.bases[BaseC] + g.bases[BaseG], g.tot_s),
          GCn3s |-> Ratio(BaseTot(g, BaseC) + BaseTot(g, BaseG)
                            - g.bases[BaseC] - g.bases[BaseG],
                          g.totalaa * 3 - g.tot_s),
          base_1 |-> g.base_1, base_2 |-> g.base_2, base_3 |-> g.base_3]
    [] which = 2 ->
         Ratio(BaseTot(g, BaseC) + BaseTot(g, BaseG), g.totalaa * 3)
    [] which = 3 -> Ratio(g.bases[BaseC] + g.bases[BaseG], g.tot_s)
    [] which = 4 -> g.tot_s
    [] which = 5 -> g.totalaa

\* gc_out(foutput, fblkout, which, pm)
GcOut(which) ==
  /\ ~crashed
  /\ ~exited
  /\ \E g \in {GcCounts(ca_of(pcu), dds)} :
       IF GcTooShort(g)
         THEN /\ out' = [name |-> "gc_out", table |-> "none", val |-> NotWritten]
              /\ op' = [NoOp("gc_out") EXCEPT
                          !.last_aa = op.last_aa, !.level = which,
                          !.msgs = TooShortMsgs, !.ret = 1]
              /\ UNCHANGED headers
         ELSE /\ out' = [name |-> "gc_out", table |-> "none",
                         val |-> Written(GcReport(which, g))]
              /\ op' = [NoOp("gc_out") EXCEPT
                          !.last_aa = op.last_aa, !.level = which]
              /\ headers' = IF which = 1 THEN headers \cup {"gc_out"}
                            ELSE headers
  /\ pre' = Counters
  /\ UNCHANGED << outFrame, codon_tot >>

\* cutab_out, lines 1209-1231: the count and the RSCU of the codons counted
CutabRows(nncod, nnaa, ca, ds) ==
  [x \in {y \in BagToSet(nncod) : 1 <= y /\ y <= NumCodons} |->
     Rscu(nncod, nnaa, ca, ds, x)]

\* cutab_out(fblkout, nncod, nnaa, pm): line 1207 assigns the global codon_tot
CutabOut ==
  /\ ~crashed
  /\ ~exited
  /\ \E r \in {codon_error(1, 4, FALSE, FALSE, ncod, ca_of(pcu),
                           valid_stops, num_seq_int_stop)} :
       /\ codon_tot' = r.ret
       /\ out' = [name |-> "cutab_out", table |-> "none",
                  val |-> Written([rows |-> CutabRows(ncod, naa, ca_of(pcu), dds),
                                   codons |-> r.ret])]
  /\ op' = [NoOp("cutab_out") EXCEPT !.last_aa = op.last_aa]
  /\ pre' = Counters
  /\ UNCHANGED << outFrame, headers >>

\* dinuc_out, lines 1299-1307: dinuc_tot[x] for the frames x = 0, 1, 2 and
\* dinuc_tot[3]
DinucTot(x) ==
  IF x = 3 THEN BagCardinality(din)
  ELSE SumSet(din, {e \in BagToSet(din) : e[1] = x})

\* lines 1333-1377: the frequencies that are not 0.000, by row and dinucleotide
DinucRows ==
  [e \in BagToSet(din) \cup {<<3, f[2]>> : f \in BagToSet(din)} |->
     IF e[1] = 3
       THEN Ratio(SumSet(din, {f \in BagToSet(din) : f[2] = e[2]}), DinucTot(3))
       ELSE Ratio(CopiesIn(e, din), DinucTot(e[1]))]

\* dinuc_out(fblkout, ttitle, sp)
DinucOut ==
  /\ ~crashed
  /\ ~exited
  /\ out' = [name |-> "dinuc_out", table |-> "none", val |-> Written(DinucRows)]
  /\ headers' = headers \cup {"dinuc_out"}
  /\ op' = [NoOp("dinuc_out") EXCEPT !.last_aa = op.last_aa]
  /\ pre' = Counters
  /\ UNCHANGED << outFrame, codon_tot >>

\* pm->pap->hydro in tenths: the Kyte and Doolittle index of the amino acids
Hydro ==
  << 28, 38, 45, 19, 42, 0 - 8, 0 - 16, 0 - 7, 18, 0 - 13, 0, 0 - 32, 0 - 35,
     0 - 35, 0 - 39, 0 - 35, 0 - 35, 25, 0 - 9, 0 - 45, 0 - 4 >>

\* pm->pap->aromo: 1 for Phe, Tyr and Trp
Aromo == [i \in 1..NumAA |-> IF i \in {1, 10, 19} THEN 1 ELSE 0]

RECURSIVE WeightedSum(_, _, _)
\* the sum of nnaa[i] * prop[i] over the amino acids i of S
WeightedSum(nnaa, prop, S) ==
  IF S = {} THEN 0
  ELSE LET i == CHOOSE j \in S : TRUE
       IN CopiesIn(i, nnaa) * prop[i] + WeightedSum(nnaa, prop, S \ {i})

\* lines 1413-1415 and 1447-1449: the mean of the property over the amino acids
PropMean(nnaa, prop, scale) ==
  Ratio(WeightedSum(nnaa, prop, BagToSet(nnaa) \cap ((1..NumAA) \ {11})),
        scale * AaTot(nnaa))

\* hydro_out(foutput, nnaa, pm) and aromo_out(foutput, nnaa, pm)
PropOut(name, prop, scale) ==
  /\ ~crashed
  /\ ~exited
  /\ IF AaTot(naa) = 0
       THEN /\ out' = [name |-> name, table |-> "none", val |-> NotWritten]
            /\ op' = [NoOp(name) EXCEPT !.last_aa = op.last_aa,
                                        !.msgs = TooShortMsgs, !.ret = 1]
       ELSE /\ out' = [name |-> name, table |-> "none",
                       val |-> Written(PropMean(naa, prop, scale))]
            /\ op' = [NoOp(name) EXCEPT !.last_aa = op.last_aa]
  /\ pre' = Counters
  /\ UNCHANGED << outFrame, codon_tot, headers >>

HydroOut == PropOut("hydro_out", Hydro, 10)

AromoOut == PropOut("aromo_out", Aromo, 1)

InitOut ==
  /\ \E code \in OutCodes : CountStart(code)
  /\ RefStart(NoFile, NoFile, NoFile, {})

NextOut ==
  \/ \E s \in OutSeqs : CodonUsageTot(s, << >>)
  \/ CodonUsageOut
  \/ RscuUsageOut
  \/ RaauUsageOut
  \/ AaUsageOut
  \/ BaseSilUsOut
  \/ \E warn \in BOOLEAN : EncOut(warn)
  \/ \E which \in 1..5 : GcOut(which)
  \/ CutabOut
  \/ DinucOut
  \/ HydroOut
  \/ AromoOut

SpecOut == InitOut /\ [][NextOut]_vars

(***************************************************************************)
(* initialize_point on several MENU_STRUCT contexts                        *)
(***************************************************************************)
\* the codes the contexts choose from
CtxCodes == 1..8

\* initialize_point(code, fop_species, cai_species, pm, ref) on the context c
\* other than the first: pm->ds and pm->da are set to the static arrays of
\* how_synon and how_synon_aa, which the call fills again
InitializePointOn(c, code, fop_species, cai_species) ==
  /\ ctx' = [ctx EXCEPT ![c] = [pcu |-> code, pfop |-> fop_species,
                                 pcai |-> cai_species]]
  /\ dds' = how_synon(ca_of(code))
  /\ dda' = how_synon_aa(ca_of(code))
  /\ op' = [NoOp("initialize_point") EXCEPT !.last_aa = op.last_aa,
                                            !.level = c]
  /\ UNCHANGED << pcu, pcai, pfop, ncod, naa, codon_tot, valid_stops,
                  num_seq_int_stop, din, fram, dinuc_a, pre, crashed, ncalls,
                  nused >>
  /\ UNCHANGED << caifile, cbifile, fopfile, ref_cai, user_cai, user_cbi,
                  user_fop, cai_ttt, first_call_cbi, first_call,
                  has_opt_info_cbi, has_opt_info_fop, exited, menu, headers,
                  out >>

InitCtx ==
  /\ \E code \in CtxCodes : CountStart(code)
  /\ RefStart(NoFile, NoFile, NoFile, {})

NextCtx ==
  \/ \E code \in CtxCodes, k \in Species : InitializePoint(code, k, k)
  \/ \E c \in 2..NumCtx, code \in CtxCodes, k \in Species :
       InitializePointOn(c, code, k, k)

SpecCtx == InitCtx /\ [][NextCtx]_vars

(***************************************************************************)
(* dinuc_count                                                             *)
(***************************************************************************)
\* the switch of dinuc_count, lines 1251-1273
DinucBase(c) ==
  CASE c \in {"t", "T", "u", "U"} -> 1
    [] c \in {"c", "C"} -> 2
    [] c \in {"a", "A"} -> 3
    [] c \in {"g", "G"} -> 4
    [] OTHER -> 0

\* a mutant of DinucIteration: the base before an unrecognised symbol is kept
DinucIterationKeepsBase(st, c) ==
  IF DinucBase(c) = 0 THEN st
  ELSE IF st.a = 0 THEN [st EXCEPT !.a = DinucBase(c)]
  ELSE [din |-> Incr(st.din, << st.fram, ((st.a - 1) * 4 + DinucBase(c)) - 1 >>),
        fram |-> (st.fram + 1) % 3,
        a |-> DinucBase(c)]

\* one iteration of the loop of dinuc_count, lines 1248-1282, on character c
DinucIteration(st, c) ==
  IF DinucBase(c) = 0 \/ st.a = 0 THEN [st EXCEPT !.a = DinucBase(c)]
  ELSE [din |-> Incr(st.din, << st.fram, ((st.a - 1) * 4 + DinucBase(c)) - 1 >>),
        fram |-> (st.fram + 1) % 3,
        a |-> DinucBase(c)]

RECURSIVE dinuc_count(_, _, _)
\* dinuc_count(seq, ttot) from character i on, ttot being the length of seq
dinuc_count(st, seq, i) ==
  IF i > Len(seq) THEN st
  ELSE dinuc_count(DinucIteration(st, seq[i]), seq, i + 1)

\* the sequences passed to dinuc_count: A, C and an unrecognised symbol
DinucAlphabet == {"A", "C", "N"}
DinucSeqs == UNION {[1..n -> DinucAlphabet] : n \in 0..MaxBases}

\* dinuc_count(seq, strlen(seq)) returning to its caller
DinucCount(s) ==
  /\ ~crashed
  /\ ~exited
  /\ \E r \in {dinuc_count([din |-> din, fram |-> fram, a |-> dinuc_a], s, 1)} :
       /\ BagCardinality(r.din) <= MaxPairs
       /\ din' = r.din
       /\ fram' = r.fram
       /\ dinuc_a' = r.a
  /\ op' = [NoOp("dinuc_count") EXCEPT !.seq = s, !.last_aa = op.last_aa]
  /\ pre' = Counters
  /\ UNCHANGED << pcu, dds, dda, ncod, naa, codon_tot, valid_stops,
                  num_seq_int_stop, crashed, ncalls, nused >>
  /\ UNCHANGED refVars

InitDinuc ==
  /\ CountStart(1)
  /\ RefStart(NoFile, NoFile, NoFile, {})

NextDinuc ==
  \/ \E s \in DinucSeqs : DinucCount(s)
  \/ \E s \in Scenarios : CodonUsageTot(s, << >>)
  \/ CleanUp

SpecDinuc == InitDinuc /\ [][NextDinuc]_vars

(***************************************************************************)
(* Properties of the counting engine                                       *)
(***************************************************************************)
\* the k-th complete triplet of a sequence, k = 0, 1, ...
TripletAt(s, k) == << s[3 * k + 1], s[3 * k + 2], s[3 * k + 3] >>

\* the complete triplets of s that hold a symbol other than T/U, C, A, G
BadTriplets(s) ==
  Cardinality({k \in 0..(Len(s) \div 3 - 1) :
                 \E j \in 1..3 : TripletAt(s, k)[j] \notin RecognisedBases})

IsStopTriplet(t, ca) == ca[ident_codon(t)] = StopAA

\* the last complete triplet of s translates to the stop amino acid
LastTripletIsStop(s, ca) ==
  Len(s) >= 3 /\ IsStopTriplet(TripletAt(s, Len(s) \div 3 - 1), ca)

\* the stop codons of s before its final complete triplet
StopsBeforeFinal(s, ca) ==
  Cardinality({k \in 0..(Len(s) \div 3 - 2) : IsStopTriplet(TripletAt(s, k), ca)})

Counted == op.name = "codon_usage_tot" /\ ~crashed
CountedFromCleared == Counted /\ ncalls = 1

SumNaa == SumRange(naa, 1, NumAA)
SumNcod == SumRange(ncod, 1, NumCodons)

\* C1: in every state the amino acid counts 1..21 and the codon counts 1..64
\* have the same sum; what is counted in ncod[0] is in neither.
C1_NaaSumEqualsNcodSum == SumNaa = SumNcod

\* C1 witness: a second sequence was counted on top of the first, with a
\* trailing partial codon and translatable codons counted.
C1_Witness ==
  /\ Counted
  /\ ncalls = 2
  /\ Len(op.seq) % 3 # 0
  /\ CopiesIn(0, ncod) > CopiesIn(0, pre.ncod)
  /\ SumNcod > pre.codon_tot
  /\ pre.codon_tot > 0

\* C2 as stated: a sequence counted from the cleared state leaves
\* sum(ncod[1..64]) = floor(len/3), whatever its symbols.
C2_Original == CountedFromCleared => SumNcod = Len(op.seq) \div 3

\* C2 amended: for len >= 2 sum(ncod[1..64]) is floor(len/3) less the complete
\* triplets that hold an unrecognised symbol; for len < 2 the loop bound wraps
\* and a call that returns has counted at least one codon in ncod[0].
C2_SumNcodIsTranslatableTriplets ==
  CountedFromCleared =>
    IF Len(op.seq) >= 2
      THEN SumNcod = Len(op.seq) \div 3 - BadTriplets(op.seq)
      ELSE CopiesIn(0, ncod) >= 1 /\ codon_tot >= 1

\* C2 witness: a counted sequence with one translatable and one
\* untranslatable complete triplet.
C2_Witness ==
  /\ CountedFromCleared
  /\ Len(op.seq) \div 3 = 2
  /\ BadTriplets(op.seq) = 1
  /\ SumNcod = 1

\* C3 as stated: codon_tot = sum(ncod[1..64]) and sum(naa[1..21]) = codon_tot.
C3_Original == codon_tot = SumNcod /\ SumNaa = codon_tot

\* C3 amended: codon_tot counts every complete triplet scanned and equals
\* sum(naa[0..21]); sum(naa[1..21]) = sum(ncod[1..64]); a complete triplet with
\* an unrecognised symbol adds to ncod[0], naa[0] and codon_tot alike, a
\* trailing partial codon adds to ncod[0] alone.
C3_CodonTotCountsEveryTriplet ==
  /\ codon_tot = SumRange(naa, 0, NumAA)
  /\ SumNaa = SumNcod
  /\ codon_tot = SumNcod + CopiesIn(0, naa)
  /\ CopiesIn(0, naa) <= CopiesIn(0, ncod)
  /\ (Counted /\ Len(op.seq) >= 2) =>
       /\ codon_tot = pre.codon_tot + Len(op.seq) \div 3
       /\ CopiesIn(0, naa) = CopiesIn(0, pre.naa) + BadTriplets(op.seq)
       /\ CopiesIn(0, ncod) = CopiesIn(0, pre.ncod) + BadTriplets(op.seq)
                    + (IF Len(op.seq) % 3 # 0 THEN 1 ELSE 0)

\* C3 witness: a sequence with an untranslatable complete triplet and a
\* trailing partial codon was counted.
C3_Witness ==
  /\ Counted
  /\ BadTriplets(op.seq) = 1
  /\ Len(op.seq) % 3 # 0
  /\ codon_tot > SumNcod
  /\ CopiesIn(0, ncod) > CopiesIn(0, naa)

\* C4: a sequence of length 0, 1 or 2 makes no loop iteration: codon_tot, naa
\* and ncod[1..64] keep their values and ncod[0] grows by 1 for length 1 or 2
\* and by 0 for length 0.
C4_ShortSequenceNoIteration ==
  (op.name = "codon_usage_tot" /\ Len(op.seq) < 3) =>
    /\ codon_tot = pre.codon_tot
    /\ naa = pre.naa
    /\ \A x \in 1..NumCodons : CopiesIn(x, ncod) = CopiesIn(x, pre.ncod)
    /\ CopiesIn(0, ncod) = CopiesIn(0, pre.ncod)
                           + (IF Len(op.seq) = 0 THEN 0 ELSE 1)

\* C5 as stated: valid_stops grows by one whenever the last complete triplet
\* translates to stop, trailing bases or not, and is unchanged otherwise.
C5_Original ==
  (Counted /\ Len(op.seq) >= 3) =>
    valid_stops = pre.valid_stops
                  + (IF LastTripletIsStop(op.seq, ca_of(pcu)) THEN 1 ELSE 0)

\* C5 amended: valid_stops grows by one exactly when the length is a multiple
\* of 3 and the last triplet translates to stop; with 1 or 2 trailing bases,
\* or a last triplet that is no stop, it is unchanged.
C5_ValidStopOnlyWithoutTrailingBases ==
  (Counted /\ Len(op.seq) >= 1) =>
    valid_stops = pre.valid_stops
                  + (IF Len(op.seq) % 3 = 0 /\ LastTripletIsStop(op.seq, ca_of(pcu))
                       THEN 1 ELSE 0)

\* C5 witness: a stop triplet followed by trailing bases was counted and
\* valid_stops kept its value.
C5_Witness ==
  /\ Counted
  /\ Len(op.seq) % 3 # 0
  /\ LastTripletIsStop(op.seq, ca_of(pcu))
  /\ valid_stops = pre.valid_stops

InternalStopWarned ==
  "internal_stops" \in op.msgs \/ "some_internal_stops" \in op.msgs

\* C6: for a sequence whose length is a multiple of 3, counted from the
\* cleared state, codon_error at level 1 with warnings on computes the number
\* of stop codons before the final codon and warns exactly when it is > 0.
C6_InternalStopsBeforeFinal ==
  (/\ op.name = "codon_error"
   /\ op.level = 1
   /\ op.warn
   /\ ncalls = 1
   /\ Len(op.seq) % 3 = 0) =>
    /\ op.ns = StopsBeforeFinal(op.seq, ca_of(pcu))
    /\ InternalStopWarned <=> StopsBeforeFinal(op.seq, ca_of(pcu)) > 0

\* C7: for every translation table from codons 1..64 to amino acids 1..21,
\* after initialize_point ds[x] >= 1 and ds[x] = da[ca[x]] for every codon x,
\* ds[x] being the number of codons translated like x and da[a] the number of
\* codons translated to a.
C7_DegeneracyTablesAgree ==
  /\ \A x \in 1..NumCodons :
       /\ dds[x] >= 1
       /\ dds[x] = dda[ca_of(pcu)[x]]
       /\ dds[x] =
            Cardinality({i \in 1..NumCodons : ca_of(pcu)[i] = ca_of(pcu)[x]})
  /\ \A a \in 1..NumAA :
       dda[a] = Cardinality({x \in 1..NumCodons : ca_of(pcu)[x] = a})

\* C7 witness: initialize_point has activated a generated table in which
\* some amino acids have three codons and others four.
C7_Witness ==
  /\ op.name = "initialize_point"
  /\ pcu > 2
  /\ \E x, y \in 1..NumCodons : dds[x] = 3 /\ dds[y] = 4

\* the number the claim gives a base: T/U = 1, C = 2, A = 3, G = 4
BaseNumber(c) ==
  IF c \in {"T", "t", "U", "u"} THEN 1
  ELSE IF c \in {"C", "c"} THEN 2
  ELSE IF c \in {"A", "a"} THEN 3
  ELSE IF c \in {"G", "g"} THEN 4
  ELSE 0

\* C8: ident_codon returns (b1-1)*16 + b2 + (b3-1)*4 for a triplet of bases
\* T/U, C, A, G in either case, a value of 1..64 from which the three bases
\* are recovered (so the 64 triplets map one-to-one onto 1..64), and 0 for a
\* triplet with any other symbol or the end of the string in any position.
C8_IdentCodonBijection ==
  op.name = "ident_codon" =>
    LET b1 == BaseNumber(op.seq[1])
        b2 == BaseNumber(op.seq[2])
        b3 == BaseNumber(op.seq[3])
    IN /\ op.ret \in 0..NumCodons
       /\ IF \A j \in 1..3 : op.seq[j] \in RecognisedBases
            THEN /\ op.ret = (b1 - 1) * 16 + b2 + (b3 - 1) * 4
                 /\ op.ret \in 1..NumCodons
                 /\ b1 = 1 + ((op.ret - 1) \div 16)
                 /\ b3 = 1 + (((op.ret - 1) % 16) \div 4)
                 /\ b2 = 1 + ((op.ret - 1) % 4)
            ELSE op.ret = 0

\* C8 witness: a lower-case triplet with U was identified as codon 12 (TGA),
\* and it is told from TAG (15).
C8_Witness ==
  /\ op.name = "ident_codon"
  /\ op.seq = <<"u", "g", "a">>
  /\ op.ret = 12
  /\ ident_codon(<<"T", "A", "G">>) = 15

(***************************************************************************)
(* Properties of the user tables                                           *)
(***************************************************************************)
\* the last call was calculator c and it returned to its caller
Returned(c) == op.name = c /\ ~exited /\ out.name = c

\* C9: once a user table has loaded, every cai_out, cbi_out and fop_out call
\* of the run, the first and the later ones, writes the value computed from
\* the user table and not the one from the built-in table of the context.
C9_OverrideUsedOnEveryCall ==
  /\ (Returned("cai_out") /\ caifile # NoFile) =>
       out.val = CaiValue(ncod, user_cai, Eligible(ca_of(pcu), dds))
  /\ (Returned("cbi_out") /\ cbifile # NoFile) =>
       out.val = CbiValue(ncod, naa, user_cbi, has_opt_info_cbi,
                          ca_of(pcu), dda)
  /\ (Returned("fop_out") /\ fopfile # NoFile) =>
       out.val = FopValue(ncod, user_fop, has_opt_info_fop, ca_of(pcu))

\* a CAI source of exactly 64 values, each in [0, 1]
ValidCaiSource(f) ==
  /\ f.n = NumCodons
  /\ \A i \in 1..f.n :
       /\ ~IsNaN(CaiTokens(f)[i])
       /\ 0 <= CaiTokens(f)[i]
       /\ CaiTokens(f)[i] <= WOne

\* C10: a call of cai_out with a CAI file loads the table only when the file
\* holds exactly 64 values, each in [0, 1]; with fewer or more values, or a
\* value that is not in [0, 1], the call ends in my_exit, no CAI is written
\* and the table is not taken as loaded.
C10_CaiLoadExactly64InRange ==
  (op.name = "cai_out" /\ caifile # NoFile) =>
    IF ValidCaiSource(caifile)
      THEN /\ ~exited
           /\ cai_ttt
           /\ out.name = "cai_out"
           /\ \A x \in 1..NumCodons :
                At(user_cai, x) \in {CaiTokens(caifile)[x], ClampTo}
      ELSE /\ exited
           /\ ~cai_ttt
           /\ out.name = "my_exit"

\* the characters of the file of calculator c, none if it has no file
SourceChars(c) ==
  LET f == IF c = "cbi_out" THEN cbifile ELSE fopfile
  IN IF f = NoFile THEN << >> ELSE FopChars(f)

HasSource(c) == (IF c = "cbi_out" THEN cbifile ELSE fopfile) # NoFile

\* C11: a Fop or CBI file with the digit 4 anywhere in it fails to load: the
\* call that reads it ends in my_exit, whatever the other characters are.
C11_Digit4IsFatal ==
  \A c \in {"cbi_out", "fop_out"} :
    (op.name = c /\ HasSource(c)
       /\ \E i \in 1..Len(SourceChars(c)) : SourceChars(c)[i] = "4") =>
      exited /\ out.name = "my_exit"

\* a classification source with exactly 64 accepted digits, each 1, 2 or 3
ValidClassSource(chars) ==
  LET d == SelectSeq(chars, LAMBDA ch : ch \in {"0", "1", "2", "3"})
  IN Len(d) = NumCodons /\ \A i \in 1..Len(d) : d[i] \in {"1", "2", "3"}

\* C12: a user classification table that has loaded has 64 entries, each 1, 2
\* or 3; a source with a number of accepted digits other than 64 or with a
\* digit outside 1..3 (a 0) gives no loaded table and no Fop or CBI output.
C12_LoadedClassTableIsValid ==
  /\ (cbifile # NoFile /\ ~first_call_cbi) =>
       \A x \in 1..NumCodons : At(user_cbi, x) \in {1, 2, 3}
  /\ (fopfile # NoFile /\ ~first_call) =>
       \A x \in 1..NumCodons : At(user_fop, x) \in {1, 2, 3}
  /\ \A c \in {"cbi_out", "fop_out"} :
       (HasSource(c) /\ out.name = c) => ValidClassSource(SourceChars(c))


(***************************************************************************)
(* Properties of the calculators and writers                               *)
(***************************************************************************)
OutputOps == {"cai_out", "cbi_out", "fop_out", "enc_out", "gc_out",
              "base_sil_us_out", "cutab_out", "codon_usage_out",
              "rscu_usage_out", "raau_usage_out", "aa_usage_out", "dinuc_out",
              "hydro_out", "aromo_out"}

\* C13: every calculator or output operation leaves the counts unchanged:
\* ncod, naa, codon_tot, valid_stops, the dinucleotide counts and the phase
\* have the same values after the call as before it.
C13_OutputOpsLeaveCountsUnchanged ==
  [][op'.name \in OutputOps =>
       UNCHANGED << ncod, naa, codon_tot, valid_stops, din, fram, dinuc_a >>]_vars

\* C14: once a reference table is loaded or selected, no call of cai_out,
\* cbi_out or fop_out changes one of its entries: the built-in CAI weights
\* are never written and the user tables keep the values read from their files.
C14_TablesKeepLoadedValues ==
  /\ \A k \in Species : DOMAIN ref_cai[k] = {}
  /\ (caifile # NoFile /\ cai_ttt) =>
        \A x \in 1..NumCodons : At(user_cai, x) = CaiTokens(caifile)[x]
  /\ (cbifile # NoFile /\ ~first_call_cbi) =>
        \A x \in 1..NumCodons :
           At(user_cbi, x) = DigitVal(SelectSeq(FopChars(cbifile), IsFopDigit)[x])
  /\ (fopfile # NoFile /\ ~first_call) =>
        \A x \in 1..NumCodons :
           At(user_fop, x) = DigitVal(SelectSeq(FopChars(fopfile), IsFopDigit)[x])

\* the counts gc_out builds from ncod in the current state
GcNow == GcCounts(ca_of(pcu), dds)

\* C15: gc_out suppresses a statistic only when its own denominator is zero:
\* GC (mode 2) and the translated length (mode 5) are written whenever a
\* non-stop codon was counted, and GC3s (mode 3) is not written exactly when no
\* synonymous codon was counted.
C15_GcSuppressedByOwnDenominator ==
  (op.name = "gc_out") =>
     /\ (op.level \in {2, 5}) => (out.val.written <=> GcNow.totalaa # 0)
     /\ (op.level = 3) => (out.val.written <=> GcNow.tot_s # 0)

\* the classification table the last cbi_out or fop_out call read
ClassTableRead ==
  CASE out.table = "user_cbi" -> user_cbi
    [] out.table = "user_fop" -> user_fop
    [] OTHER -> BuiltinFop(pfop)

\* the optimal codons of amino acid a in a table, a synonymous non-stop family
OptimalOf(tbl, a) ==
  {x \in Eligible(ca_of(pcu), dds) : ca_of(pcu)[x] = a /\ At(tbl, x) = 3}

\* no family with an optimal codon has a counted codon
NoEligibleFamilyCounted(tbl) ==
  \A a \in 1..NumAA : OptimalOf(tbl, a) # {} => CopiesIn(a, naa) = 0

\* C16 as stated: the value written by cbi_out lies in [-1, 1], and is exactly
\* 0 when no eligible family has any counted codon.
C16_Original ==
  Returned("cbi_out") =>
    /\ out.val.den > 0
    /\ 0 - out.val.den <= out.val.num
    /\ out.val.num <= out.val.den
    /\ NoEligibleFamilyCounted(ClassTableRead) => out.val.num = 0

\* C16 amended: the value written by cbi_out is at most 1 and is exactly 0
\* when no eligible family has any counted codon; it is at least -1 when no
\* family has more than half of its codons classified optimal, and at least
\* -5 (one minus the size of the largest family) otherwise.
C16_CbiAtMostOne ==
  Returned("cbi_out") =>
    /\ out.val.den > 0
    /\ out.val.num <= out.val.den
    /\ 0 - 5 * out.val.den <= out.val.num
    /\ (\A a \in 1..NumAA :
          2 * Cardinality(OptimalOf(ClassTableRead, a)) <= dda[a]) =>
         0 - out.val.den <= out.val.num
    /\ NoEligibleFamilyCounted(ClassTableRead) => out.val.num = 0

\* a CBI below -1 was written
C16_Witness ==
  /\ Returned("cbi_out")
  /\ out.val.num < 0 - out.val.den

\* the codons of the families that have an optimal codon in a table
EligibleFamilyCodons(tbl) ==
  {x \in Eligible(ca_of(pcu), dds) : OptimalOf(tbl, ca_of(pcu)[x]) # {}}

\* the count of the codons of class c in the families with an optimal codon
ClassCount(tbl, c) ==
  SumOver(ncod, {x \in EligibleFamilyCodons(tbl) : At(tbl, x) = c})

\* C17: fop_out writes optimal / (optimal + common + nonoptimal), each term
\* being the count of the codons of that class over the synonymous non-stop
\* families that have an optimal codon; the value lies in [0, 1] and is
\* exactly 0 when the denominator is 0.
C17_FopIsOptimalFraction ==
  Returned("fop_out") =>
    /\ out.val.opt = ClassCount(ClassTableRead, 3)
    /\ out.val.std = ClassCount(ClassTableRead, 2)
    /\ out.val.nonopt = ClassCount(ClassTableRead, 1)
    /\ IF out.val.opt + out.val.std + out.val.nonopt = 0
         THEN out.val.num = 0 /\ out.val.den = 1
         ELSE /\ out.val.num = out.val.opt
              /\ out.val.den = out.val.opt + out.val.std + out.val.nonopt
    /\ 0 <= out.val.num
    /\ out.val.num <= out.val.den

\* the fold classes of the amino acids of the active code, stop left out
FoldClasses == {dda[a] : a \in {b \in EncAAs : dda[b] # 0}}

\* the fold classes of which a codon was counted
FoldClassesCounted ==
  {dds[x] : x \in {y \in BagToSet(ncod) :
                     1 <= y /\ y <= NumCodons /\ ca_of(pcu)[y] # StopAA}}

\* the fold classes with an amino acid of which one codon was counted at
\* least twice
FoldClassesRepeated ==
  {dds[x] : x \in {y \in BagToSet(ncod) :
                     /\ 1 <= y /\ y <= NumCodons
                     /\ ca_of(pcu)[y] # StopAA
                     /\ CopiesIn(y, ncod) >= 2}}

\* the Enc written is a number n with lo <= n <= hi
EncWithin(lo, hi) ==
  /\ ~out.val.report.error_t
  /\ lo * out.val.report.enc.den <= out.val.report.enc.num
  /\ out.val.report.enc.num <= hi * out.val.report.enc.den

\* C18 as stated: for counts with a codon of every fold class of the active
\* code enc_out writes a number in [20, 61] and not the sentinel.
C18_Original ==
  (op.name = "enc_out" /\ FoldClasses \subseteq FoldClassesCounted) =>
     EncWithin(20, 61)

\* C18 amended: enc_out writes a number exactly when every fold class above 1
\* of the active code has an amino acid one codon of which was counted at
\* least twice, a single 3-fold amino acid being excused when the classes 2
\* and 4 both have one; a number written lies in [20, 61].
C18_EncNumericInRange ==
  (op.name = "enc_out") =>
     /\ ~out.val.report.error_t <=>
          \A z \in FoldClasses \ {1} :
             \/ z \in FoldClassesRepeated
             \/ /\ z = 3
                /\ Cardinality({a \in EncAAs : dda[a] = 3}) = 1
                /\ {2, 4} \subseteq FoldClassesRepeated
     /\ ~out.val.report.error_t => EncWithin(20, 61)

\* a number was written by enc_out for counts above the cap of 61
C18_Witness ==
  /\ op.name = "enc_out"
  /\ ~out.val.report.error_t
  /\ out.val.report.enc = Ratio(61, 1)
  /\ EncTot(EncTables(ncod, naa, ca_of(pcu), dda)).num
       > 61 * EncTot(EncTables(ncod, naa, ca_of(pcu), dda)).den

\* the weight table the last cai_out call read, as it was loaded or built in
CaiTableLoaded ==
  IF out.table = "user_cai" THEN CaiTokens(caifile) ELSE BuiltinCai(pcai)

\* the weights of a table are numbers in [0, 1]
WeightsInRange(tbl) ==
  \A x \in 1..NumCodons :
     ~IsNaN(At(tbl, x)) /\ 0 <= At(tbl, x) /\ At(tbl, x) <= WOne

\* the weight cai_out is to use for codon x: below 0.0001 it is 0.01
WeightUsed(tbl, x) == IF At(tbl, x) < ClampBelow THEN ClampTo ELSE At(tbl, x)

\* the eligible codons that were counted
EligibleCounted ==
  Eligible(ca_of(pcu), dds) \cap BagToSet(ncod)

\* C19: cai_out writes exactly 0 when no eligible codon was counted, and
\* otherwise exp(sum of count * ln(weight) / total eligible count), the
\* weights below 0.0001 taken as 0.01; for a table with weights in [0, 1]
\* every weight used is in [0.0001, 1], so the value is in [0, 1].
C19_CaiIsGeometricMean ==
  (Returned("cai_out") /\ WeightsInRange(CaiTableLoaded)) =>
     /\ ~out.val.nan
     /\ out.val.totaa = SumSet(ncod, EligibleCounted)
     /\ EligibleCounted = {} => (out.val.totaa = 0 /\ DOMAIN out.val.terms = {})
     /\ DOMAIN out.val.terms =
          {WeightUsed(CaiTableLoaded, x) : x \in EligibleCounted}
     /\ \A w \in DOMAIN out.val.terms :
          /\ out.val.terms[w] =
               SumSet(ncod, {x \in EligibleCounted :
                               WeightUsed(CaiTableLoaded, x) = w})
          /\ ClampBelow <= w
          /\ w <= WOne

\* cai_out wrote a CAI in which a counted codon has a clamped weight
C19_Witness ==
  /\ Returned("cai_out")
  /\ WeightsInRange(CaiTableLoaded)
  /\ \E x \in EligibleCounted : At(CaiTableLoaded, x) < ClampBelow
  /\ ClampTo \in DOMAIN out.val.terms

\* C20: codon_error at level 1 adds exactly one to num_seq_int_stop whenever
\* the stop codons counted minus valid_stops is above 0, for a single sequence
\* and in totals mode, with the warnings on or off, and leaves it unchanged
\* when the difference is 0.
C20_InternalStopSequenceCounted ==
  (op.name = "codon_error" /\ op.level = 1) =>
     /\ CountStops(ncod, ca_of(pcu)) - valid_stops > 0 =>
          num_seq_int_stop = pre.num_seq_int_stop + 1
     /\ CountStops(ncod, ca_of(pcu)) - valid_stops = 0 =>
          num_seq_int_stop = pre.num_seq_int_stop

\* codon_error was called at level 2 with the warnings on
Level2Warned == op.name = "codon_error" /\ op.level = 2 /\ op.warn

\* the codon id passed as last_aa translates to stop
TerminalIsStop == ca_of(pcu)[op.last_aa] = StopAA

NonTranslatableReported ==
  IF op.totals THEN "some_non_translatable" \in op.msgs
  ELSE "non_translatable" \in op.msgs

\* C21 as stated: the last codon is reported partial exactly when ncod[0] is 1
\* and the terminal amino acid is stop; in every other case with ncod[0] > 0
\* non-translatable codons are reported, and every sequence whose terminal
\* codon is not a stop is flagged as not terminated (non-totals mode).
C21_Original ==
  Level2Warned =>
     /\ "last_codon_partial" \in op.msgs <=>
          (CopiesIn(0, ncod) = 1 /\ TerminalIsStop)
     /\ (CopiesIn(0, ncod) > 0 /\ ~(CopiesIn(0, ncod) = 1 /\ TerminalIsStop)) =>
          NonTranslatableReported
     /\ (~op.totals /\ ~TerminalIsStop) => "no_stop_codon" \in op.msgs

\* C21 amended: the last codon is reported partial exactly when ncod[0] is 1
\* and the terminal codon does not translate to stop, and then nothing else is
\* reported; in every other case with ncod[0] > 0 non-translatable codons are
\* reported, and the sequence is flagged as not terminated exactly when, in
\* non-totals mode, its terminal codon is not a stop and it was not reported
\* partial.
C21_PartialWhenTerminalNotStop ==
  Level2Warned =>
     /\ "last_codon_partial" \in op.msgs <=>
          (CopiesIn(0, ncod) = 1 /\ ~TerminalIsStop)
     /\ "last_codon_partial" \in op.msgs => op.msgs = {"last_codon_partial"}
     /\ (CopiesIn(0, ncod) > 0 /\ ~(CopiesIn(0, ncod) = 1 /\ ~TerminalIsStop)) =>
          NonTranslatableReported
     /\ "no_stop_codon" \in op.msgs <=>
          (~op.totals /\ ~TerminalIsStop /\ CopiesIn(0, ncod) # 1)

\* a sequence of one codon and a trailing partial codon was reported partial
C21_Witness ==
  /\ Level2Warned
  /\ ncalls = 1
  /\ Len(op.seq) > 3
  /\ Len(op.seq) % 3 # 0
  /\ CopiesIn(0, ncod) = 1
  /\ op.msgs = {"last_codon_partial"}

\* C22: after any calls of initialize_point, on one or several contexts, the
\* ds and da tables seen through each context are the degeneracy of that
\* context's own genetic code; every context reads them through pm->ds and
\* pm->da, which point to the arrays dds and dda.
C22_EachContextSeesItsOwnDegeneracy ==
  /\ dds = how_synon(ca_of(pcu))
  /\ dda = how_synon_aa(ca_of(pcu))
  /\ \A c \in DOMAIN ctx :
       ctx[c] # NoCtx =>
         /\ dds = how_synon(ca_of(ctx[c].pcu))
         /\ dda = how_synon_aa(ca_of(ctx[c].pcu))

\* the amino acids whose codons the last cbi_out call did not skip
CbiFamilies == {a \in 1..NumAA : At(has_opt_info_cbi, a) # 0}

\* the codons of amino acid a that the table classifies as optimal
CbiOptimal(tbl, a) ==
  {x \in 1..NumCodons : ca_of(pcu)[x] = a /\ At(tbl, x) = 3}

\* naa[a] / da[a] times k, in twelfths
CbiShare(a, k) == k * ((CopiesIn(a, naa) * ExpScale) \div dda[a])

\* the value is (opt - exp_cod) / (tot_cod - exp_cod), or 0 if the divisor
\* is 0, opt and tot_cod being the counts of the optimal codons and of all
\* codons of the families that are not skipped
CbiQuotient ==
  /\ out.val.opt =
       SumOver(ncod, UNION {CbiOptimal(ClassTableRead, a) : a \in CbiFamilies})
  /\ out.val.tot_cod =
       SumOver(ncod, {x \in 1..NumCodons : ca_of(pcu)[x] \in CbiFamilies})
  /\ IF out.val.tot_cod * ExpScale = out.val.exp_cod
       THEN out.val.num = 0 /\ out.val.den = 1
       ELSE /\ out.val.num = out.val.opt * ExpScale - out.val.exp_cod
            /\ out.val.den = out.val.tot_cod * ExpScale - out.val.exp_cod

\* C23 as stated: exp_cod is the sum of naa[a] / da[a] over the eligible
\* families, each taken once however many of its codons are optimal, and the
\* value written is (optimal - exp_cod) / (total_eligible - exp_cod), or 0.
C23_Original ==
  Returned("cbi_out") =>
    /\ out.val.exp_cod =
         SumOver([a \in CbiFamilies |-> CbiShare(a, 1)], CbiFamilies)
    /\ CbiQuotient

\* C23 amended: exp_cod is the sum, over the families that are not skipped,
\* of naa[a] / da[a] times the number of optimal codons of the family, and
\* the value written is (optimal - exp_cod) / (total_eligible - exp_cod), or
\* 0 when that divisor is 0.
C23_ExpCodPerOptimalCodon ==
  Returned("cbi_out") =>
    /\ out.val.exp_cod =
         SumOver([a \in CbiFamilies |->
                    CbiShare(a, Cardinality(CbiOptimal(ClassTableRead, a)))],
                 CbiFamilies)
    /\ CbiQuotient

\* cbi_out has counted a family of which two or more codons are optimal
C23_Witness ==
  /\ Returned("cbi_out")
  /\ \E a \in CbiFamilies :
       /\ Cardinality(CbiOptimal(ClassTableRead, a)) >= 2
       /\ CopiesIn(a, naa) > 0
  /\ out.val.exp_cod > 0

\* fold, numaa and totb of the counts enc_out was called with
EncNow == EncTables(ncod, naa, ca_of(pcu), dda)

\* the fold classes above 1 that have amino acids in the active code, none
\* of them with a usable homozygosity
EncFoldsWithoutData ==
  {z \in 2..8 : EncNow.fold[z] # 0 /\ EncNow.numaa[z] = 0}

\* the fold classes 2 and 4 both have a usable amino acid
TwoAndFourUsable == EncNow.numaa[2] # 0 /\ EncNow.numaa[4] # 0

\* totb[z] / numaa[z]
EncMean(z) ==
  Ratio(EncNow.totb[z].num, EncNow.totb[z].den * EncNow.numaa[z])

\* the mean of the averages of the fold classes 2 and 4
EncMeanTwoFour ==
  Ratio(RAdd(EncMean(2), EncMean(4)).num, 2 * RAdd(EncMean(2), EncMean(4)).den)

\* enc_tot with the fold class 3 taken at the mean of the classes 2 and 4
EncInterpolated ==
  RAdd(RAdd(Ratio(EncNow.fold[1], 1),
            Ratio(EncNow.fold[3] * EncMeanTwoFour.den, EncMeanTwoFour.num)),
       RSum([z \in 2..8 |-> Ratio(EncNow.fold[z] * EncMean(z).den,
                                  EncMean(z).num)],
            {z \in (2..8) \ {3} : EncNow.fold[z] # 0}))

\* two fractions are the same number
SameRatio(p, q) == p.num * q.den = q.num * p.den

\* the field written by enc_out is the number enc, at most 61
EncWritten(enc) ==
  /\ ~out.val.report.error_t
  /\ SameRatio(out.val.report.enc,
               IF enc.num <= 61 * enc.den THEN enc ELSE Ratio(61, 1))

\* C24 as stated: when the class 3 has no usable amino acid and the classes
\* 2 and 4 have, the class 3 is taken at the mean of the two and a number is
\* written, however many amino acids have three codons; the sentinel is
\* written only when a class with amino acids has no usable one and this
\* does not apply.
C24_Original ==
  (op.name = "enc_out") =>
     /\ out.val.report.error_t <=>
          \E z \in EncFoldsWithoutData : ~(z = 3 /\ TwoAndFourUsable)
     /\ (EncFoldsWithoutData = {3} /\ TwoAndFourUsable) =>
          EncWritten(EncInterpolated)

\* C24 amended: the class 3 is taken at the mean of the classes 2 and 4 only
\* when exactly one amino acid of the active code has three codons; the
\* sentinel is written when a class with amino acids has no usable one and
\* this does not apply, also for a class 3 of two or more amino acids, and
\* the level 3 message goes with the sentinel when warnings are enabled.
C24_InterpolationForOneThreeFold ==
  (op.name = "enc_out") =>
     /\ out.val.report.error_t <=>
          \E z \in EncFoldsWithoutData :
             ~(z = 3 /\ EncNow.fold[3] = 1 /\ TwoAndFourUsable)
     /\ (EncFoldsWithoutData = {3} /\ EncNow.fold[3] = 1 /\ TwoAndFourUsable)
          => EncWritten(EncInterpolated)
     /\ "nc_not_calculated" \in op.msgs <=>
          (out.val.report.error_t /\ op.warn)

\* a number was written by enc_out with the one amino acid of three codons
\* not usable
C24_Witness ==
  /\ op.name = "enc_out"
  /\ EncFoldsWithoutData = {3}
  /\ EncNow.fold[3] = 1
  /\ TwoAndFourUsable
  /\ ~out.val.report.error_t
  /\ out.val.report.enc.num < 61 * out.val.report.enc.den
  /\ ~SameRatio(EncMean(2), EncMean(4))

\* the index of the dinucleotide of the characters b and c
DinucIndex(b, c) == ((DinucBase(b) - 1) * 4 + DinucBase(c)) - 1

\* the offsets p, from 0, of the adjacent pairs of recognised bases of s
RecognisedPairs(s) ==
  {p \in 0..(Len(s) - 2) : DinucBase(s[p + 1]) # 0 /\ DinucBase(s[p + 2]) # 0}

\* clean_up has zeroed the counts, the dinucleotide table, the frame and
\* the carried base
AllZero ==
  /\ \A x \in 0..NumCodons : CopiesIn(x, ncod) = 0
  /\ \A a \in 0..(NumAA + 1) : CopiesIn(a, naa) = 0
  /\ \A f \in 0..2 : \A d \in 0..15 : CopiesIn(<< f, d >>, din) = 0
  /\ valid_stops = 0
  /\ codon_tot = 0
  /\ fram = 0
  /\ dinuc_a = 0

\* a dinuc_count call that follows clean_up counts the pairs of its own
\* sequence only, the first of them in frame 0
FirstPairInFrameZero ==
  (op.name = "clean_up" /\ op'.name = "dinuc_count") =>
     /\ BagCardinality(din') = Cardinality(RecognisedPairs(op'.seq))
     /\ \A p \in RecognisedPairs(op'.seq) :
          (\A q \in RecognisedPairs(op'.seq) : p <= q) =>
             CopiesIn(<< 0, DinucIndex(op'.seq[p + 1], op'.seq[p + 2]) >>, din') > 0

\* a dinuc_count call that does not follow clean_up goes on from the carried
\* base and frame and adds to the table
DinucStateCarried ==
  (op.name # "clean_up" /\ op'.name = "dinuc_count") =>
     /\ din \sqsubseteq din'
     /\ (Len(op'.seq) > 0 /\ DinucBase(op'.seq[1]) # 0 /\ dinuc_a # 0) =>
          CopiesIn(<< fram, DinucIndex(IF dinuc_a = 2 THEN "C" ELSE "A",
                                       op'.seq[1]) >>, din')
            > CopiesIn(<< fram, DinucIndex(IF dinuc_a = 2 THEN "C" ELSE "A",
                                           op'.seq[1]) >>, din)
     /\ (Len(op'.seq) = 0) => (fram' = fram /\ dinuc_a' = dinuc_a)

\* a codon_usage_tot call that does not follow clean_up adds to the counts
CountsCarried ==
  (op'.name = "codon_usage_tot") =>
     /\ ncod \sqsubseteq ncod'
     /\ naa \sqsubseteq naa'
     /\ codon_tot' = codon_tot + Len(op'.seq) \div 3
     /\ valid_stops <= valid_stops'
     /\ UNCHANGED << din, fram, dinuc_a >>

\* C25: after clean_up, whatever came before, the codon and amino acid counts,
\* the dinucleotide table, valid_stops, codon_tot and the frame are zero and
\* the carried base is cleared, so that the next dinuc_count call pairs no
\* base with the previous sequence and records its first pair in frame 0;
\* calls not separated by clean_up go on from the values left behind.
C25_CleanUpClearsAllCounters ==
  [][/\ (op'.name = "clean_up") => AllZero'
     /\ FirstPairInFrameZero
     /\ DinucStateCarried
     /\ CountsCarried]_vars

\* clean_up has returned from a call made with counts that were not zero
C25_Witness ==
  /\ op.name = "clean_up"
  /\ AllZero
  /\ pre.codon_tot > 0
  /\ pre.valid_stops > 0
  /\ pre.ncod # EmptyBag

\* C26: a dinuc_count call made from a cleared dinucleotide state counts
\* every adjacent pair of recognised bases at the offsets (p, p + 1) of its
\* sequence in frame p mod 3, also the pairs after an unrecognised symbol.
C26_PairCountedInFrameOfItsOffset ==
  [][(din = EmptyBag /\ fram = 0 /\ dinuc_a = 0 /\ op'.name = "dinuc_count") =>
       \A f \in 0..2 : \A d \in 0..15 :
          CopiesIn(<< f, d >>, din') =
            Cardinality({p \in RecognisedPairs(op'.seq) :
                           /\ p % 3 = f
                           /\ DinucIndex(op'.seq[p + 1], op'.seq[p + 2]) = d})]_vars

\* the stop codons among the complete triplets of s, the terminal codon of s
\* left out
NonTerminalStops(s, ca) ==
  Cardinality({k \in 0..(Len(s) \div 3 - 1) : IsStopTriplet(TripletAt(s, k), ca)})
  - (IF Len(s) % 3 = 0 /\ LastTripletIsStop(s, ca) THEN 1 ELSE 0)

\* the stop codons counted that are not valid stops: ns of line 253
StopsNotValid == CountStops(ncod, ca_of(pcu)) - valid_stops

\* valid_stops is at most the number of stop codons counted
ValidStopsWithinStops == valid_stops <= CountStops(ncod, ca_of(pcu))

\* C27: in every state reached from cleared counters by codon_usage_tot and
\* clean_up calls under one genetic code, valid_stops is at most the sum of
\* ncod over the stop codons, so that the internal stop count of level 1 is
\* never negative, and that count is the number of non-terminal stop codons
\* of the sequences accumulated: every call adds those of its sequence.
C27_ValidStopsWithinStopCount ==
  [][~crashed' =>
       /\ ValidStopsWithinStops'
       /\ (op'.name = "codon_usage_tot") =>
            StopsNotValid' = StopsNotValid + NonTerminalStops(op'.seq, ca_of(pcu))
       /\ (op'.name = "codon_error" /\ op'.level = 1) =>
            (op'.ns = StopsNotValid' /\ op'.ns >= 0)]_vars

\* the inequality of C27 alone
ValidStopsNeverAboveStops == [][~crashed' => ValidStopsWithinStops']_vars

\* the codons that end in base b, T = 1, C = 2, A = 3, G = 4
EndingIn(b) == {IcodeOf(x, y, b) : x \in 1..4, y \in 1..4}

\* the amino acids with two or more codons, stop left out
SynonymousAAs == {a \in (1..NumAA) \ {StopAA} : dda[a] > 1}

\* the codons counted that end in base b and have a synonym
SilentEndingIn(b) ==
  SumOver(ncod, {id \in EndingIn(b) : ca_of(pcu)[id] \in SynonymousAAs})

\* the count of the amino acids that have a codon ending in base b, each
\* amino acid taken once
CouldEndIn(b) ==
  SumOver(naa, {a \in SynonymousAAs :
                  \E id \in EndingIn(b) : ca_of(pcu)[id] = a})

\* C28: for each of the four bases base_sil_us_out divides the count of the
\* synonymous non-stop codons ending in that base by the count of the amino
\* acids that have a codon ending in it, every amino acid added once per
\* base, also one of a six-fold family; the numerator never exceeds the
\* denominator, so the ratio is in [0, 1], and it is 0 without eligible codon.
C28_SilentBaseRatioAtMostOne ==
  (op.name = "base_sil_us_out") =>
     \A b \in 1..4 :
        /\ SilentEndingIn(b) <= CouldEndIn(b)
        /\ out.val.report[b] =
             (IF CouldEndIn(b) > 0 THEN Ratio(SilentEndingIn(b), CouldEndIn(b))
              ELSE Ratio(0, 1))
        /\ 0 <= out.val.report[b].num
        /\ out.val.report[b].num <= out.val.report[b].den

\* base_sil_us_out has written a ratio strictly between 0 and 1 for a base
\* in which two codons of a counted six-fold amino acid end
C28_Witness ==
  /\ op.name = "base_sil_us_out"
  /\ \E b \in 1..4 :
       /\ 0 < out.val.report[b].num
       /\ out.val.report[b].num < out.val.report[b].den
       /\ \E a \in SynonymousAAs :
            /\ dda[a] = 6
            /\ CopiesIn(a, naa) > 0
            /\ Cardinality({id \in EndingIn(b) : ca_of(pcu)[id] = a}) = 2

====
